---- MODULE Spec2Model ----
(***************************************************************************)
(* Model of the kernel-resident programs of the runner:                    *)
(*   - the shared process-ancestry helpers (codspeed/process_tracking.h),  *)
(*   - the lifecycle program (exectrack.bpf.c),                            *)
(*   - the allocation program (memtrack.bpf.c).                            *)
(* The two programs are separate objects: each owns its own tracked_pids,  *)
(* pids_ppid and events maps.  The maps of the allocation program carry    *)
(* the prefix mem_.                                                        *)
(***************************************************************************)
EXTENDS Integers, Sequences, FiniteSets, TLC

(***************************************************************************)
(* Bounds of the model.                                                    *)
(***************************************************************************)
\* process ids 1..NumPids take part in the lifecycle program
NumPids == 2
\* free record slots left in the ring buffer at the start
MaxEvents == 2
\* longest parent chain handed to is_tracked: pids 0..ChainLen
ChainLen == 7
\* free record slots left in the ring buffer of the allocation program
MemMaxEvents == 2

(***************************************************************************)
(* Program constants.                                                      *)
(***************************************************************************)
MAX_ENTRIES == 10000
WALK_DEPTH == 5
RINGBUF_SIZE == 256 * 1024
EVENT_TYPE_FORK == 1
EVENT_TYPE_EXEC == 2
EVENT_TYPE_EXIT == 3
\* sizeof(struct event) of the lifecycle program: u8 (padded to 8), u64,
\* 3 x u32, char[16], padded to a multiple of 8
EXEC_EVENT_SIZE == 8 + 8 + 12 + 16 + 4

EVENT_TYPE_MALLOC == 1
EVENT_TYPE_FREE == 2
EVENT_TYPE_CALLOC == 3
EVENT_TYPE_REALLOC == 4
EVENT_TYPE_ALIGNED_ALLOC == 5
EVENT_TYPE_MMAP == 6
EVENT_TYPE_MUNMAP == 7
EVENT_TYPE_BRK == 8
\* sizeof(struct event) of the allocation program: the 24-byte header and the
\* largest member of the union (realloc: 3 x u64)
MEM_EVENT_SIZE == 24 + 24

Pids == 1..NumPids

(***************************************************************************)
(* A 64-bit pid_tgid value is modelled as the pair <<tgid, tid>> of its    *)
(* two 32-bit halves.                                                      *)
(***************************************************************************)
PidTgid(pid, tid) == <<pid, tid>>
Hi32(t) == t[1]
Lo32(t) == t[2]

(***************************************************************************)
(* BPF hash maps.  A map is a function over the keys it holds among the    *)
(* modelled keys; `other` counts the entries it holds for keys outside the *)
(* model, which no modelled hook touches.                                  *)
(***************************************************************************)
EmptyMap == [x \in {} |-> 0]
MapLen(m, other) == Cardinality(DOMAIN m) + other
bpf_map_lookup_elem(m, k) == k \in DOMAIN m
\* mutant: the map takes new keys without limit
bpf_map_update_elem_unbounded(m, other, k, v) ==
    [x \in DOMAIN m \cup {k} |-> IF x = k THEN v ELSE m[x]]

bpf_map_update_elem(m, other, k, v) ==
    IF k \in DOMAIN m \/ MapLen(m, other) < MAX_ENTRIES
    THEN [x \in DOMAIN m \cup {k} |-> IF x = k THEN v ELSE m[x]]
    ELSE m
bpf_map_delete_elem(m, k) == [x \in DOMAIN m \ {k} |-> m[x]]

(***************************************************************************)
(* BPF ring buffer.  `older` is the number of bytes held by records that   *)
(* were committed earlier and not consumed yet; ev is the sequence of      *)
(* records committed since.                                                *)
(***************************************************************************)
RecordBytes(sz) == ((sz + 8 + 7) \div 8) * 8
RingUsed(ev, older, sz) == older + Len(ev) * RecordBytes(sz)
\* mutant: reservations never fail
bpf_ringbuf_reserve_unbounded(ev, older, sz) == TRUE

bpf_ringbuf_reserve(ev, older, sz) ==
    RingUsed(ev, older, sz) + RecordBytes(sz) <= RINGBUF_SIZE - 1
RingSlots(sz) == (RINGBUF_SIZE - 1) \div RecordBytes(sz)

VARIABLES
    tracked_pids,   \* lifecycle program: pid -> marker
    pids_ppid,      \* lifecycle program: pid -> parent pid
    tracked_other,  \* entries of tracked_pids for pids outside the model
    ppid_other,     \* entries of pids_ppid for pids outside the model
    events,         \* lifecycle program: records committed to the ring buffer
    ring_older,     \* bytes of earlier, unconsumed records in the ring buffer
    alive,          \* the processes that currently exist
    walk_ret,       \* pid -> the value is_tracked(pid) returned when it was called
    mem_tracked_pids,   \* allocation program: pid -> marker
    mem_pids_ppid,      \* allocation program: pid -> parent pid
    mem_events,         \* allocation program: records committed to the ring buffer
    mem_ring_older,     \* bytes of earlier, unconsumed records in that ring buffer
    mem_other,          \* map name -> entries it holds for keys outside the model
    tracking_enabled,   \* the one-slot array map read by is_enabled
    malloc_arg,         \* pid_tgid -> size stored by uprobe_malloc
    calloc_arg,         \* pid_tgid -> nmemb * size stored by uprobe_calloc
    aligned_alloc_arg,  \* pid_tgid -> size stored by uprobe_aligned_alloc
    memalign_arg,       \* pid_tgid -> size stored by uprobe_memalign
    realloc_args,       \* pid_tgid -> struct realloc_args_t
    mmap_temp,          \* pid_tgid -> struct mmap_args
    brk_temp,           \* pid_tgid -> requested break
    workload,           \* the primitives the traced processes call in this run
    running             \* cpu -> the hook invocation in flight on it, where hooks
                        \* are followed helper call by helper call

exec_maps == <<tracked_pids, pids_ppid, tracked_other, ppid_other, events, ring_older>>
exec_vars == <<exec_maps, alive, walk_ret>>
mem_tracking == <<mem_tracked_pids, mem_pids_ppid>>
mem_tables == <<malloc_arg, calloc_arg, aligned_alloc_arg, memalign_arg,
                realloc_args, mmap_temp, brk_temp>>
mem_fixed == <<mem_ring_older, mem_other, workload, running>>
mem_vars == <<mem_tracking, mem_events, tracking_enabled, mem_tables, mem_fixed>>
vars == <<exec_vars, mem_vars>>

(***************************************************************************)
(* codspeed/process_tracking.h                                             *)
(***************************************************************************)
RECURSIVE is_tracked_walk(_, _, _, _)
is_tracked_walk(tp, pp, pid, i) ==
    IF i >= WALK_DEPTH THEN 0
    ELSE IF ~bpf_map_lookup_elem(pp, pid) THEN 0
    ELSE IF bpf_map_lookup_elem(tp, pp[pid]) THEN 1
    ELSE is_tracked_walk(tp, pp, pp[pid], i + 1)

\* mutant: the walk stops one level early
is_tracked_short(tp, pp, pid) ==
    IF bpf_map_lookup_elem(tp, pid) THEN 1 ELSE is_tracked_walk(tp, pp, pid, 1)

is_tracked(tp, pp, pid) ==
    IF bpf_map_lookup_elem(tp, pid) THEN 1 ELSE is_tracked_walk(tp, pp, pid, 0)

\* mutant: the child is tracked without looking at the parent
handle_fork_unchecked(tp, to, pp, po, parent_pid, child_pid) ==
    [tracked_pids |-> bpf_map_update_elem(tp, to, child_pid, 1),
     pids_ppid |-> bpf_map_update_elem(pp, po, child_pid, parent_pid),
     ret |-> 1]

\* mutant: the child gets its parent link and no marker of its own
handle_fork_link_only(tp, to, pp, po, parent_pid, child_pid) ==
    IF is_tracked(tp, pp, parent_pid) = 1
    THEN [tracked_pids |-> tp,
          pids_ppid |-> bpf_map_update_elem(pp, po, child_pid, parent_pid),
          ret |-> 1]
    ELSE [tracked_pids |-> tp, pids_ppid |-> pp, ret |-> 0]

handle_fork(tp, to, pp, po, parent_pid, child_pid) ==
    IF is_tracked(tp, pp, parent_pid) = 1
    THEN [tracked_pids |-> bpf_map_update_elem(tp, to, child_pid, 1),
          pids_ppid |-> bpf_map_update_elem(pp, po, child_pid, parent_pid),
          ret |-> 1]
    ELSE [tracked_pids |-> tp, pids_ppid |-> pp, ret |-> 0]

\* mutant: the parent link survives the exit
handle_exit_keeps_link(tp, pp, pid) ==
    [tracked_pids |-> bpf_map_delete_elem(tp, pid), pids_ppid |-> pp, ret |-> 0]

\* mutant: the exit also takes the markers of the children linked to pid
handle_exit_subtree(tp, pp, pid) ==
    [tracked_pids |-> [k \in {c \in DOMAIN tp : c # pid /\ ~(c \in DOMAIN pp /\ pp[c] = pid)}
                          |-> tp[k]],
     pids_ppid |-> bpf_map_delete_elem(pp, pid),
     ret |-> 0]

handle_exit(tp, pp, pid) ==
    [tracked_pids |-> bpf_map_delete_elem(tp, pid),
     pids_ppid |-> bpf_map_delete_elem(pp, pid),
     ret |-> 0]

(***************************************************************************)
(* exectrack.bpf.c                                                         *)
(***************************************************************************)
\* the record written by submit_event (timestamp and comm are left out:
\* no hook reads them back)
ExecEvent(event_type, pid, tid, ppid) ==
    [event_type |-> event_type, pid |-> pid, tid |-> tid, ppid |-> ppid]

\* mutant: the subject pid and the parent pid are written to each other's field
submit_event_swapped(ev, older, tp, pp, event_type, pid, ppid, cur) ==
    IF is_tracked(tp, pp, pid) = 0 /\ is_tracked(tp, pp, ppid) = 0 THEN ev
    ELSE IF ~bpf_ringbuf_reserve(ev, older, EXEC_EVENT_SIZE) THEN ev
    ELSE Append(ev, ExecEvent(event_type, ppid, Lo32(cur), pid))

submit_event(ev, older, tp, pp, event_type, pid, ppid, cur) ==
    IF is_tracked(tp, pp, pid) = 0 /\ is_tracked(tp, pp, ppid) = 0 THEN ev
    ELSE IF ~bpf_ringbuf_reserve(ev, older, EXEC_EVENT_SIZE) THEN ev
    ELSE Append(ev, ExecEvent(event_type, pid, Lo32(cur), ppid))

\* the fork tracepoint runs in the context of the forking (parent) thread
exec_tracepoint_sched_fork(parent_pid, child_pid) ==
    LET cur == PidTgid(parent_pid, parent_pid)
        r == handle_fork(tracked_pids, tracked_other, pids_ppid, ppid_other,
                         parent_pid, child_pid)
    IN /\ tracked_pids' = r.tracked_pids
       /\ pids_ppid' = r.pids_ppid
       /\ events' = IF r.ret = 1
                    THEN submit_event(events, ring_older, r.tracked_pids, r.pids_ppid,
                                      EVENT_TYPE_FORK, child_pid, parent_pid, cur)
                    ELSE events
       /\ alive' = alive \cup {child_pid}
       /\ UNCHANGED <<tracked_other, ppid_other, ring_older>>

exec_tracepoint_sched_exec(cur) ==
    LET pid == Hi32(cur)
    IN /\ events' = IF is_tracked(tracked_pids, pids_ppid, pid) = 1
                    THEN submit_event(events, ring_older, tracked_pids, pids_ppid,
                                      EVENT_TYPE_EXEC, pid, 0, cur)
                    ELSE events
       /\ UNCHANGED <<tracked_pids, pids_ppid, tracked_other, ppid_other, ring_older, alive>>

\* mutant: the maps are cleaned up only when the exit event went out
exec_tracepoint_sched_exit_if_sent(cur) ==
    LET pid == Hi32(cur)
        r == handle_exit(tracked_pids, pids_ppid, pid)
        sent == /\ is_tracked(tracked_pids, pids_ppid, pid) = 1
                /\ bpf_ringbuf_reserve(events, ring_older, EXEC_EVENT_SIZE)
    IN /\ alive' = alive \ {pid}
       /\ events' = IF sent
                    THEN submit_event(events, ring_older, tracked_pids, pids_ppid,
                                      EVENT_TYPE_EXIT, pid, 0, cur)
                    ELSE events
       /\ tracked_pids' = IF sent THEN r.tracked_pids ELSE tracked_pids
       /\ pids_ppid' = IF sent THEN r.pids_ppid ELSE pids_ppid
       /\ UNCHANGED <<tracked_other, ppid_other, ring_older>>

exec_tracepoint_sched_exit(cur) ==
    LET pid == Hi32(cur)
        r == handle_exit(tracked_pids, pids_ppid, pid)
    IN /\ alive' = alive \ {pid}
       /\ IF is_tracked(tracked_pids, pids_ppid, pid) = 1
          THEN /\ events' = submit_event(events, ring_older, tracked_pids, pids_ppid,
                                         EVENT_TYPE_EXIT, pid, 0, cur)
               /\ tracked_pids' = r.tracked_pids
               /\ pids_ppid' = r.pids_ppid
               /\ UNCHANGED <<tracked_other, ppid_other, ring_older>>
          ELSE UNCHANGED exec_maps

\* the control plane arms a root pid by writing its marker into tracked_pids
Arm(pid) ==
    /\ tracked_pids' = bpf_map_update_elem(tracked_pids, tracked_other, pid, 1)
    /\ UNCHANGED <<pids_ppid, tracked_other, ppid_other, events, ring_older, alive>>

\* the allocation program is not loaded
MemIdle ==
    /\ mem_tracked_pids = EmptyMap /\ mem_pids_ppid = EmptyMap
    /\ mem_events = << >> /\ mem_ring_older = 0
    /\ mem_other = EmptyMap /\ tracking_enabled = EmptyMap
    /\ malloc_arg = EmptyMap /\ calloc_arg = EmptyMap
    /\ aligned_alloc_arg = EmptyMap /\ memalign_arg = EmptyMap
    /\ realloc_args = EmptyMap /\ mmap_temp = EmptyMap /\ brk_temp = EmptyMap
    /\ workload = {}
    /\ running = EmptyMap

\* The maps are empty when the program is loaded; some processes exist already.
InitExec ==
    /\ MemIdle
    /\ tracked_pids = EmptyMap
    /\ pids_ppid = EmptyMap
    /\ tracked_other = 0
    /\ ppid_other = 0
    /\ alive \in SUBSET Pids \ {{}}
    /\ walk_ret = EmptyMap
    /\ events = << >>
    /\ ring_older = (RingSlots(EXEC_EVENT_SIZE) - MaxEvents) * RecordBytes(EXEC_EVENT_SIZE)

\* A process forks a child under a pid no living process holds; only living
\* processes exec, exit or get armed.
NextExec ==
    /\ \/ \E pid \in alive : Arm(pid)
       \/ \E parent_pid \in alive : \E child_pid \in Pids \ alive :
              exec_tracepoint_sched_fork(parent_pid, child_pid)
       \/ \E pid \in alive : exec_tracepoint_sched_exec(PidTgid(pid, pid))
       \/ \E pid \in alive : exec_tracepoint_sched_exit(PidTgid(pid, pid))
    /\ UNCHANGED <<walk_ret, mem_vars>>

SpecExec == InitExec /\ [][NextExec]_vars

(***************************************************************************)
(* is_tracked as a function of the two maps.  The maps are drawn from      *)
(* parent chains 0 -> 1 -> ... -> n, open or closed into a cycle (a pid    *)
(* reused by a descendant), with up to two pids marked; such contents are  *)
(* left behind by forks, exits, dropped insertions and control plane       *)
(* writes.  CallIsTracked records what the function returns.               *)
(***************************************************************************)
WalkPids == 0..ChainLen
OpenChain(n) == [p \in 0..(n - 1) |-> p + 1]
ClosedChain(n) == [p \in 0..n |-> IF p = n THEN 0 ELSE p + 1]
Chains == {OpenChain(n) : n \in 0..ChainLen} \cup {ClosedChain(n) : n \in 1..ChainLen}
Markers == {[p \in S |-> 1] : S \in {T \in SUBSET WalkPids : Cardinality(T) <= 2}}

CallIsTracked(pid) ==
    /\ Cardinality(DOMAIN walk_ret) < 2
    /\ pid \notin DOMAIN walk_ret
    /\ walk_ret' = [p \in DOMAIN walk_ret \cup {pid} |->
                      IF p = pid THEN is_tracked(tracked_pids, pids_ppid, pid)
                      ELSE walk_ret[p]]
    /\ UNCHANGED <<exec_maps, alive, mem_vars>>

InitWalk ==
    /\ MemIdle
    /\ tracked_pids \in Markers
    /\ pids_ppid \in Chains
    /\ tracked_other = 0
    /\ ppid_other = 0
    /\ events = << >>
    /\ ring_older = 0
    /\ alive = {}
    /\ walk_ret = EmptyMap

NextWalk == \E pid \in WalkPids : CallIsTracked(pid)

SpecWalk == InitWalk /\ [][NextWalk]_vars

\* the pid reached from pid by k parent links, or -1 when the chain ends before
RECURSIVE Ancestor(_, _, _)
Ancestor(pp, pid, k) ==
    IF k = 0 THEN pid
    ELSE IF pid \notin DOMAIN pp THEN -1
    ELSE Ancestor(pp, pp[pid], k - 1)

\* the distances (in parent links) at which the chain from pid meets a marked pid
MarkedAt(pid) ==
    {k \in 0..(ChainLen + 1) : Ancestor(pids_ppid, pid, k) \in DOMAIN tracked_pids}

\* C2: is_tracked(pid) is true exactly when pid, or a pid reached from it by
\* at most 5 parent links, is in tracked_pids: with a single marked ancestor
\* at distance d it is true for d <= 5 and false for d >= 6, and it is false
\* when the chain ends before a marked pid is met.
C2_WalkDepthFive ==
    \A pid \in DOMAIN walk_ret :
        /\ walk_ret[pid] = (IF \E k \in 0..5 : k \in MarkedAt(pid) THEN 1 ELSE 0)
        /\ \A d \in 0..(ChainLen + 1) :
             MarkedAt(pid) = {d} => walk_ret[pid] = (IF d <= 5 THEN 1 ELSE 0)
        /\ MarkedAt(pid) = {} => walk_ret[pid] = 0

\* C2 witness: on one chain is_tracked returned true for the pid 5 links
\* below the only marked pid and false for the pid 6 links below it.
C2_Witness ==
    \E p, q \in DOMAIN walk_ret :
        /\ MarkedAt(p) = {5} /\ walk_ret[p] = 1
        /\ MarkedAt(q) = {6} /\ walk_ret[q] = 0

(***************************************************************************)
(* Properties of the ancestry helpers and of the lifecycle program.        *)
(***************************************************************************)
HasEvent(ev, event_type, pid) ==
    \E i \in 1..Len(ev) : ev[i].event_type = event_type /\ ev[i].pid = pid

C3_ExitRemovesAndIsIdempotent ==
    \A pid \in Pids :
        LET r == handle_exit(tracked_pids, pids_ppid, pid)
            again == handle_exit(r.tracked_pids, r.pids_ppid, pid)
        IN /\ pid \notin DOMAIN r.tracked_pids
           /\ pid \notin DOMAIN r.pids_ppid
           /\ is_tracked(r.tracked_pids, r.pids_ppid, pid) = 0
           /\ again.tracked_pids = r.tracked_pids
           /\ again.pids_ppid = r.pids_ppid
           /\ (pid \notin DOMAIN tracked_pids /\ pid \notin DOMAIN pids_ppid)
                => (r.tracked_pids = tracked_pids /\ r.pids_ppid = pids_ppid)
           /\ \A q \in Pids \ {pid} :
                /\ (q \in DOMAIN r.tracked_pids) = (q \in DOMAIN tracked_pids)
                /\ (q \in DOMAIN r.pids_ppid) = (q \in DOMAIN pids_ppid)
                /\ q \in DOMAIN pids_ppid => r.pids_ppid[q] = pids_ppid[q]

\* C3 witness: a forked (hence linked) process has exited and been removed
\* while the process it was forked from is still tracked.
C3_Witness ==
    \E i \in 1..Len(events) :
        /\ events[i].event_type = EVENT_TYPE_FORK
        /\ events[i].pid \notin alive
        /\ events[i].pid \notin DOMAIN tracked_pids
        /\ events[i].pid \notin DOMAIN pids_ppid
        /\ events[i].ppid \in DOMAIN tracked_pids
        /\ HasEvent(events, EVENT_TYPE_EXIT, events[i].pid)

\* C9: the fork hook of the lifecycle program appends exactly one fork event
\* {pid = child, ppid = parent} when the parent is tracked and the ring
\* buffer has room, and nothing when the parent is not tracked; exec and exit
\* events carry ppid = 0.
C9_ForkEventCarriesParent ==
    /\ [][\A parent \in alive : \A child \in Pids \ alive :
            exec_tracepoint_sched_fork(parent, child)
            => IF /\ is_tracked(tracked_pids, pids_ppid, parent) = 1
                  /\ bpf_ringbuf_reserve(events, ring_older, EXEC_EVENT_SIZE)
               THEN events' = Append(events,
                        [event_type |-> EVENT_TYPE_FORK, pid |-> child,
                         tid |-> parent, ppid |-> parent])
               ELSE events' = events]_vars
    /\ [](\A i \in 1..Len(events) :
            events[i].event_type \in {EVENT_TYPE_EXEC, EVENT_TYPE_EXIT}
            => events[i].ppid = 0)

\* C9 witness: the channel holds a fork event with its parent and an exec or
\* exit event.
C9_Witness ==
    /\ \E i \in 1..Len(events) :
         events[i].event_type = EVENT_TYPE_FORK /\ events[i].ppid \in Pids
    /\ \E i \in 1..Len(events) :
         events[i].event_type \in {EVENT_TYPE_EXEC, EVENT_TYPE_EXIT}

MemPids == {1, 2}
\* the threads that call into the traced primitives: a secondary thread of
\* process 1 and the main thread of process 2
Threads == {PidTgid(1, 3), PidTgid(2, 2)}
\* sizes and lengths passed to the primitives: two distinct non-zero values
Sizes == {1, 2}
\* addresses: null and one allocated address
Addrs == {0, 1}
\* results of the mmap system call, as the signed value the exit hook reads
MmapRets == {-1, 0, 1}
\* values the control plane writes into the enable flag
EnabledVals == {0, 1}
MemMapNames == {"tracked_pids", "pids_ppid", "malloc_arg", "calloc_arg",
                "aligned_alloc_arg", "memalign_arg", "realloc_args",
                "mmap_temp", "brk_temp"}
\* The tables of different primitives are disjoint and no hook reads the
\* table of another primitive, so a run exercises one group of primitives.
Workloads == {{"malloc", "free"}, {"calloc"}, {"aligned_alloc"}, {"memalign"},
              {"realloc"}, {"mmap"}, {"munmap"}, {"brk"}}

\* the tracking_enabled map as the kernel creates it: an array map has all
\* its max_entries slots from the start, filled with zero bytes
ArrayCreated == [k \in {0} |-> 0]

\* a __u64 register value as its eight bytes, least significant first; U64(n)
\* is the register holding the small number n
U64(n) == <<n % 256, (n \div 256) % 256, 0, 0, 0, 0, 0, 0>>

\* the sum of the partial products a[i] * b[j] that fall on byte k of the
\* product (i + j = k + 1)
mul_column(a, b, k) ==
    CASE k = 1 -> a[1] * b[1]
      [] k = 2 -> a[1] * b[2] + a[2] * b[1]
      [] k = 3 -> a[1] * b[3] + a[2] * b[2] + a[3] * b[1]
      [] k = 4 -> a[1] * b[4] + a[2] * b[3] + a[3] * b[2] + a[4] * b[1]
      [] k = 5 -> a[1] * b[5] + a[2] * b[4] + a[3] * b[3] + a[4] * b[2]
                   + a[5] * b[1]
      [] k = 6 -> a[1] * b[6] + a[2] * b[5] + a[3] * b[4] + a[4] * b[3]
                   + a[5] * b[2] + a[6] * b[1]
      [] k = 7 -> a[1] * b[7] + a[2] * b[6] + a[3] * b[5] + a[4] * b[4]
                   + a[5] * b[3] + a[6] * b[2] + a[7] * b[1]
      [] k = 8 -> a[1] * b[8] + a[2] * b[7] + a[3] * b[6] + a[4] * b[5]
                   + a[5] * b[4] + a[6] * b[3] + a[7] * b[2] + a[8] * b[1]

\* bytes k..8 of the product, carrying into the next byte; what would carry
\* out of byte 8 is dropped, as the 64-bit multiply instruction drops it
RECURSIVE mul_bytes(_, _, _, _)
mul_bytes(a, b, k, carry) ==
    IF k > 8 THEN <<>>
    ELSE LET s == mul_column(a, b, k) + carry IN
         <<s % 256>> \o mul_bytes(a, b, k + 1, s \div 256)

\* the product as a 32-bit multiplication would give it (not the code's)
mul_u32(a, b) ==
    [k \in 1..8 |-> IF k <= 4 THEN mul_bytes(a, b, 1, 0)[k] ELSE 0]

\* PT_REGS_PARM1(ctx) * PT_REGS_PARM2(ctx) in __u64 arithmetic: the low 64
\* bits of the product, with no overflow check
mul_u64(a, b) == mul_bytes(a, b, 1, 0)

RECURSIVE memtrack_is_tracked_walk(_, _)
memtrack_is_tracked_walk(pid, i) ==
    IF i >= 5 THEN 0
    ELSE IF ~bpf_map_lookup_elem(mem_pids_ppid, pid) THEN 0
    ELSE IF bpf_map_lookup_elem(mem_tracked_pids, mem_pids_ppid[pid]) THEN 1
    ELSE memtrack_is_tracked_walk(mem_pids_ppid[pid], i + 1)

memtrack_is_tracked(pid) ==
    IF bpf_map_lookup_elem(mem_tracked_pids, pid) THEN 1
    ELSE memtrack_is_tracked_walk(pid, 0)

\* mutant: the flag is read the wrong way round
is_enabled_inverted == IF tracking_enabled[0] = 0 THEN 1 ELSE 0

is_enabled ==
    IF ~bpf_map_lookup_elem(tracking_enabled, 0) THEN 1
    ELSE tracking_enabled[0]

\* mutant: nothing is stored while tracking is disabled
store_param_if_enabled(map, other, cur, value) ==
    IF memtrack_is_tracked(Hi32(cur)) # 0 /\ is_enabled # 0
    THEN bpf_map_update_elem(map, other, cur, value)
    ELSE map

\* mutant: an entry already pending is kept
store_param_noexist(map, other, cur, value) ==
    IF memtrack_is_tracked(Hi32(cur)) # 0 /\ ~bpf_map_lookup_elem(map, cur)
    THEN bpf_map_update_elem(map, other, cur, value)
    ELSE map

store_param(map, other, cur, value) ==
    IF memtrack_is_tracked(Hi32(cur)) # 0
    THEN bpf_map_update_elem(map, other, cur, value)
    ELSE map

\* mutant: a missing entry reads as an argument of 0
take_param_default(map, cur) ==
    IF bpf_map_lookup_elem(map, cur)
    THEN [found |-> TRUE, value |-> map[cur], map |-> bpf_map_delete_elem(map, cur)]
    ELSE [found |-> TRUE, value |-> 0, map |-> map]

\* found is FALSE for the NULL pointer; value is what the pointer refers to
\* mutant: the entry is read and left in the map
take_param_keep(map, cur) ==
    IF bpf_map_lookup_elem(map, cur)
    THEN [found |-> TRUE, value |-> map[cur], map |-> map]
    ELSE [found |-> FALSE, value |-> 0, map |-> map]

take_param(map, cur) ==
    IF bpf_map_lookup_elem(map, cur)
    THEN [found |-> TRUE, value |-> map[cur], map |-> bpf_map_delete_elem(map, cur)]
    ELSE [found |-> FALSE, value |-> 0, map |-> map]

MemEvent(evt_type, cur, data) ==
    [header |-> [event_type |-> evt_type, pid |-> Hi32(cur), tid |-> Lo32(cur)],
     data |-> data]

SUBMIT_EVENT(ev, cur, evt_type, data) ==
    IF memtrack_is_tracked(Hi32(cur)) = 0 \/ is_enabled = 0 THEN ev
    ELSE IF ~bpf_ringbuf_reserve(ev, mem_ring_older, MEM_EVENT_SIZE) THEN ev
    ELSE Append(ev, MemEvent(evt_type, cur, data))

submit_alloc_event(ev, cur, size, addr) ==
    SUBMIT_EVENT(ev, cur, EVENT_TYPE_MALLOC, [addr |-> addr, size |-> size])

submit_aligned_alloc_event(ev, cur, size, addr) ==
    SUBMIT_EVENT(ev, cur, EVENT_TYPE_ALIGNED_ALLOC, [addr |-> addr, size |-> size])

submit_calloc_event(ev, cur, size, addr) ==
    SUBMIT_EVENT(ev, cur, EVENT_TYPE_CALLOC, [addr |-> addr, size |-> size])

submit_free_event(ev, cur, addr) ==
    SUBMIT_EVENT(ev, cur, EVENT_TYPE_FREE, [addr |-> addr])

submit_realloc_event(ev, cur, old_addr, new_addr, size) ==
    SUBMIT_EVENT(ev, cur, EVENT_TYPE_REALLOC,
                 [old_addr |-> old_addr, new_addr |-> new_addr, size |-> size])

submit_mmap_event(ev, cur, addr, size, event_type) ==
    SUBMIT_EVENT(ev, cur, event_type, [addr |-> addr, size |-> size])

\* the submit_block of the four UPROBE_ARG_RET instances
submit_block(name, ev, cur, arg0, ret_val) ==
    CASE name = "malloc" -> submit_alloc_event(ev, cur, arg0, ret_val)
      [] name = "calloc" -> submit_calloc_event(ev, cur, arg0, ret_val)
      [] name = "aligned_alloc" -> submit_aligned_alloc_event(ev, cur, arg0, ret_val)
      [] name = "memalign" -> submit_aligned_alloc_event(ev, cur, arg0, ret_val)

\* UPROBE_ARG_RET: the entry hook, as the new contents of the name##_arg map
uprobe_arg(map, other, cur, arg) == store_param(map, other, cur, arg)

\* mutant: a null result is reported too
uretprobe_arg_null(name, map, ev, cur, ret_val) ==
    LET arg_ptr == take_param(map, cur) IN
    [map |-> arg_ptr.map,
     events |-> IF ~arg_ptr.found THEN ev
                ELSE submit_block(name, ev, cur, arg_ptr.value, ret_val)]

\* UPROBE_ARG_RET: the return hook, as the new map and the new channel
uretprobe_arg(name, map, ev, cur, ret_val) ==
    LET arg_ptr == take_param(map, cur) IN
    [map |-> arg_ptr.map,
     events |-> IF ~arg_ptr.found THEN ev
                ELSE IF ret_val = 0 THEN ev
                ELSE submit_block(name, ev, cur, arg_ptr.value, ret_val)]

\* UPROBE_ARGS_RET (realloc): the entry hook, as the new contents of the
\* name##_args map; arg0 is the second parameter (the new size), arg1 the
\* first (the old pointer)
uprobe_args(map, other, cur, arg0, arg1) ==
    IF memtrack_is_tracked(Hi32(cur)) = 0 THEN map
    ELSE bpf_map_update_elem(map, other, cur, [arg0 |-> arg0, arg1 |-> arg1])

\* mutant: the old pointer and the new size are reported in each other's field
uretprobe_args_swapped(map, ev, cur, ret_val) ==
    IF ~bpf_map_lookup_elem(map, cur) THEN [map |-> map, events |-> ev]
    ELSE LET a == map[cur] IN
         [map |-> bpf_map_delete_elem(map, cur),
          events |-> IF ret_val = 0 THEN ev
                     ELSE submit_realloc_event(ev, cur, a.arg0, ret_val, a.arg1)]

\* UPROBE_ARGS_RET (realloc): the return hook; the entry is copied, then deleted
uretprobe_args(map, ev, cur, ret_val) ==
    IF ~bpf_map_lookup_elem(map, cur) THEN [map |-> map, events |-> ev]
    ELSE LET a == map[cur] IN
         [map |-> bpf_map_delete_elem(map, cur),
          events |-> IF ret_val = 0 THEN ev
                     ELSE submit_realloc_event(ev, cur, a.arg1, ret_val, a.arg0)]

\* mutant: a null address is reported too
uprobe_ret_null(ev, cur, arg0) == submit_free_event(ev, cur, arg0)

\* UPROBE_RET (free): the entry hook, as the new channel
uprobe_ret(ev, cur, arg0) ==
    IF arg0 = 0 THEN ev ELSE submit_free_event(ev, cur, arg0)

\* mutant: the child gets a parent link but no marker
mem_tracepoint_sched_fork_link_only(parent_pid, child_pid) ==
    /\ IF memtrack_is_tracked(parent_pid) # 0
       THEN /\ mem_pids_ppid' = bpf_map_update_elem(mem_pids_ppid,
                                       mem_other["pids_ppid"], child_pid, parent_pid)
            /\ UNCHANGED mem_tracked_pids
       ELSE UNCHANGED mem_tracking
    /\ UNCHANGED <<mem_events, tracking_enabled, mem_tables, mem_fixed>>

mem_tracepoint_sched_fork(parent_pid, child_pid) ==
    /\ IF memtrack_is_tracked(parent_pid) # 0
       THEN /\ mem_tracked_pids' = bpf_map_update_elem(mem_tracked_pids,
                                       mem_other["tracked_pids"], child_pid, 1)
            /\ mem_pids_ppid' = bpf_map_update_elem(mem_pids_ppid,
                                       mem_other["pids_ppid"], child_pid, parent_pid)
       ELSE UNCHANGED mem_tracking
    /\ UNCHANGED <<mem_events, tracking_enabled, mem_tables, mem_fixed>>

uprobe_malloc(cur, size) ==
    /\ "malloc" \in workload
    /\ malloc_arg' = uprobe_arg(malloc_arg, mem_other["malloc_arg"], cur, size)
    /\ UNCHANGED <<mem_tracking, mem_events, tracking_enabled, mem_fixed,
                   calloc_arg, aligned_alloc_arg, memalign_arg, realloc_args,
                   mmap_temp, brk_temp>>

uretprobe_malloc(cur, ret_val) ==
    /\ "malloc" \in workload
    /\ LET r == uretprobe_arg("malloc", malloc_arg, mem_events, cur, ret_val) IN
         /\ malloc_arg' = r.map
         /\ mem_events' = r.events
    /\ UNCHANGED <<mem_tracking, tracking_enabled, mem_fixed,
                   calloc_arg, aligned_alloc_arg, memalign_arg, realloc_args,
                   mmap_temp, brk_temp>>

uprobe_free(cur, addr) ==
    /\ "free" \in workload
    /\ mem_events' = uprobe_ret(mem_events, cur, addr)
    /\ UNCHANGED <<mem_tracking, tracking_enabled, mem_tables, mem_fixed>>

uprobe_calloc(cur, nmemb, size) ==
    /\ "calloc" \in workload
    /\ calloc_arg' = uprobe_arg(calloc_arg, mem_other["calloc_arg"], cur,
                                mul_u64(nmemb, size))
    /\ UNCHANGED <<mem_tracking, mem_events, tracking_enabled, mem_fixed,
                   malloc_arg, aligned_alloc_arg, memalign_arg, realloc_args,
                   mmap_temp, brk_temp>>

uretprobe_calloc(cur, ret_val) ==
    /\ "calloc" \in workload
    /\ LET r == uretprobe_arg("calloc", calloc_arg, mem_events, cur, ret_val) IN
         /\ calloc_arg' = r.map
         /\ mem_events' = r.events
    /\ UNCHANGED <<mem_tracking, tracking_enabled, mem_fixed,
                   malloc_arg, aligned_alloc_arg, memalign_arg, realloc_args,
                   mmap_temp, brk_temp>>

\* aligned_alloc(alignment, size): the second parameter is stored
uprobe_aligned_alloc(cur, alignment, size) ==
    /\ "aligned_alloc" \in workload
    /\ aligned_alloc_arg' = uprobe_arg(aligned_alloc_arg,
                                mem_other["aligned_alloc_arg"], cur, size)
    /\ UNCHANGED <<mem_tracking, mem_events, tracking_enabled, mem_fixed,
                   malloc_arg, calloc_arg, memalign_arg, realloc_args,
                   mmap_temp, brk_temp>>

uretprobe_aligned_alloc(cur, ret_val) ==
    /\ "aligned_alloc" \in workload
    /\ LET r == uretprobe_arg("aligned_alloc", aligned_alloc_arg, mem_events,
                              cur, ret_val) IN
         /\ aligned_alloc_arg' = r.map
         /\ mem_events' = r.events
    /\ UNCHANGED <<mem_tracking, tracking_enabled, mem_fixed,
                   malloc_arg, calloc_arg, memalign_arg, realloc_args,
                   mmap_temp, brk_temp>>

uprobe_memalign(cur, alignment, size) ==
    /\ "memalign" \in workload
    /\ memalign_arg' = uprobe_arg(memalign_arg, mem_other["memalign_arg"], cur, size)
    /\ UNCHANGED <<mem_tracking, mem_events, tracking_enabled, mem_fixed,
                   malloc_arg, calloc_arg, aligned_alloc_arg, realloc_args,
                   mmap_temp, brk_temp>>

uretprobe_memalign(cur, ret_val) ==
    /\ "memalign" \in workload
    /\ LET r == uretprobe_arg("memalign", memalign_arg, mem_events, cur, ret_val) IN
         /\ memalign_arg' = r.map
         /\ mem_events' = r.events
    /\ UNCHANGED <<mem_tracking, tracking_enabled, mem_fixed,
                   malloc_arg, calloc_arg, aligned_alloc_arg, realloc_args,
                   mmap_temp, brk_temp>>

\* realloc(ptr, size): arg0 is the size, arg1 the old address
uprobe_realloc(cur, ptr, size) ==
    /\ "realloc" \in workload
    /\ realloc_args' = uprobe_args(realloc_args, mem_other["realloc_args"], cur,
                                   size, ptr)
    /\ UNCHANGED <<mem_tracking, mem_events, tracking_enabled, mem_fixed,
                   malloc_arg, calloc_arg, aligned_alloc_arg, memalign_arg,
                   mmap_temp, brk_temp>>

uretprobe_realloc(cur, ret_val) ==
    /\ "realloc" \in workload
    /\ LET r == uretprobe_args(realloc_args, mem_events, cur, ret_val) IN
         /\ realloc_args' = r.map
         /\ mem_events' = r.events
    /\ UNCHANGED <<mem_tracking, tracking_enabled, mem_fixed,
                   malloc_arg, calloc_arg, aligned_alloc_arg, memalign_arg,
                   mmap_temp, brk_temp>>

\* tracepoint_sys_enter_mmap, as the new contents of mmap_temp
sys_enter_mmap(map, other, cur, addr, len) ==
    IF memtrack_is_tracked(Hi32(cur)) # 0
    THEN bpf_map_update_elem(map, other, cur, [addr |-> addr, len |-> len])
    ELSE map

\* mutant: a return value of 0 is reported
sys_exit_mmap_nonneg(map, ev, cur, ret) ==
    LET args == take_param(map, cur) IN
    [map |-> args.map,
     events |-> IF ~args.found THEN ev
                ELSE IF ret < 0 THEN ev
                ELSE submit_mmap_event(ev, cur, ret, args.value.len, EVENT_TYPE_MMAP)]

\* tracepoint_sys_exit_mmap; ret is the signed return value of the syscall
sys_exit_mmap(map, ev, cur, ret) ==
    LET args == take_param(map, cur) IN
    [map |-> args.map,
     events |-> IF ~args.found THEN ev
                ELSE IF ret <= 0 THEN ev
                ELSE submit_mmap_event(ev, cur, ret, args.value.len, EVENT_TYPE_MMAP)]

tracepoint_sys_enter_mmap(cur, addr, len) ==
    /\ "mmap" \in workload
    /\ mmap_temp' = sys_enter_mmap(mmap_temp, mem_other["mmap_temp"], cur, addr, len)
    /\ UNCHANGED <<mem_tracking, mem_events, tracking_enabled, mem_fixed,
                   malloc_arg, calloc_arg, aligned_alloc_arg, memalign_arg,
                   realloc_args, brk_temp>>

tracepoint_sys_exit_mmap(cur, ret) ==
    /\ "mmap" \in workload
    /\ LET r == sys_exit_mmap(mmap_temp, mem_events, cur, ret) IN
         /\ mmap_temp' = r.map
         /\ mem_events' = r.events
    /\ UNCHANGED <<mem_tracking, tracking_enabled, mem_fixed,
                   malloc_arg, calloc_arg, aligned_alloc_arg, memalign_arg,
                   realloc_args, brk_temp>>

\* tracepoint_sys_enter_munmap, as the new channel
sys_enter_munmap(ev, cur, addr, len) ==
    IF addr = 0 \/ len = 0 THEN ev
    ELSE submit_mmap_event(ev, cur, addr, len, EVENT_TYPE_MUNMAP)

tracepoint_sys_enter_munmap(cur, addr, len) ==
    /\ "munmap" \in workload
    /\ mem_events' = sys_enter_munmap(mem_events, cur, addr, len)
    /\ UNCHANGED <<mem_tracking, tracking_enabled, mem_tables, mem_fixed>>

\* tracepoint_sys_enter_brk, as the new contents of brk_temp
sys_enter_brk(map, other, cur, requested_brk) ==
    IF memtrack_is_tracked(Hi32(cur)) # 0
    THEN bpf_map_update_elem(map, other, cur, requested_brk)
    ELSE map

\* mutant: the requested break is not looked at
sys_exit_brk_any_request(map, ev, cur, new_brk) ==
    LET requested_brk == take_param(map, cur) IN
    [map |-> requested_brk.map,
     events |-> IF ~requested_brk.found THEN ev
                ELSE IF new_brk <= 0 THEN ev
                ELSE submit_mmap_event(ev, cur, new_brk, 0, EVENT_TYPE_BRK)]

\* tracepoint_sys_exit_brk; new_brk is unsigned, so new_brk <= 0 is new_brk = 0
sys_exit_brk(map, ev, cur, new_brk) ==
    LET requested_brk == take_param(map, cur) IN
    [map |-> requested_brk.map,
     events |-> IF ~requested_brk.found THEN ev
                ELSE IF requested_brk.value = 0 \/ new_brk <= 0 THEN ev
                ELSE submit_mmap_event(ev, cur, new_brk, 0, EVENT_TYPE_BRK)]

tracepoint_sys_enter_brk(cur, requested_brk) ==
    /\ "brk" \in workload
    /\ brk_temp' = sys_enter_brk(brk_temp, mem_other["brk_temp"], cur, requested_brk)
    /\ UNCHANGED <<mem_tracking, mem_events, tracking_enabled, mem_fixed,
                   malloc_arg, calloc_arg, aligned_alloc_arg, memalign_arg,
                   realloc_args, mmap_temp>>

\* new_brk is unsigned, so new_brk <= 0 is new_brk = 0
tracepoint_sys_exit_brk(cur, new_brk) ==
    /\ "brk" \in workload
    /\ LET r == sys_exit_brk(brk_temp, mem_events, cur, new_brk) IN
         /\ brk_temp' = r.map
         /\ mem_events' = r.events
    /\ UNCHANGED <<mem_tracking, tracking_enabled, mem_fixed,
                   malloc_arg, calloc_arg, aligned_alloc_arg, memalign_arg,
                   realloc_args, mmap_temp>>

\* the control plane arms a root pid in the allocation program
MemArm(pid) ==
    /\ mem_tracked_pids' = bpf_map_update_elem(mem_tracked_pids,
                                               mem_other["tracked_pids"], pid, 1)
    /\ UNCHANGED <<mem_pids_ppid, mem_events, tracking_enabled, mem_tables, mem_fixed>>

\* the control plane writes the enable flag
SetEnabled(v) ==
    /\ tracking_enabled' = [tracking_enabled EXCEPT ![0] = v]
    /\ UNCHANGED <<mem_tracking, mem_events, mem_tables, mem_fixed>>

\* the lifecycle program is not loaded
ExecIdle ==
    /\ tracked_pids = EmptyMap /\ pids_ppid = EmptyMap
    /\ tracked_other = 0 /\ ppid_other = 0
    /\ events = << >> /\ ring_older = 0
    /\ alive = {} /\ walk_ret = EmptyMap

\* The hash maps are empty and the array slot is zero when the program is
\* loaded.  The program has no exit hook, so process exit and pid reuse are
\* invisible to it: any pid may fork any other.
InitMem ==
    /\ ExecIdle
    /\ mem_tracked_pids = EmptyMap
    /\ mem_pids_ppid = EmptyMap
    /\ mem_events = << >>
    /\ mem_ring_older = (RingSlots(MEM_EVENT_SIZE) - MemMaxEvents) * RecordBytes(MEM_EVENT_SIZE)
    /\ mem_other = [n \in MemMapNames |-> 0]
    /\ tracking_enabled = ArrayCreated
    /\ malloc_arg = EmptyMap /\ calloc_arg = EmptyMap
    /\ aligned_alloc_arg = EmptyMap /\ memalign_arg = EmptyMap
    /\ realloc_args = EmptyMap /\ mmap_temp = EmptyMap /\ brk_temp = EmptyMap
    /\ workload \in Workloads
    /\ running = EmptyMap

MemHook ==
    \/ \E parent_pid \in MemPids : \E child_pid \in MemPids \ {parent_pid} :
           mem_tracepoint_sched_fork(parent_pid, child_pid)
    \/ \E cur \in Threads : \E size \in Sizes : uprobe_malloc(cur, size)
    \/ \E cur \in Threads : \E ret_val \in Addrs : uretprobe_malloc(cur, ret_val)
    \/ \E cur \in Threads : \E addr \in Addrs : uprobe_free(cur, addr)
    \/ \E cur \in Threads : \E nmemb \in Sizes : \E size \in Sizes :
           uprobe_calloc(cur, U64(nmemb), U64(size))
    \/ \E cur \in Threads : \E ret_val \in Addrs : uretprobe_calloc(cur, ret_val)
    \/ \E cur \in Threads : \E size \in Sizes : uprobe_aligned_alloc(cur, 8, size)
    \/ \E cur \in Threads : \E ret_val \in Addrs : uretprobe_aligned_alloc(cur, ret_val)
    \/ \E cur \in Threads : \E size \in Sizes : uprobe_memalign(cur, 8, size)
    \/ \E cur \in Threads : \E ret_val \in Addrs : uretprobe_memalign(cur, ret_val)
    \/ \E cur \in Threads : \E ptr \in Addrs : uprobe_realloc(cur, ptr, 2)
    \/ \E cur \in Threads : \E ret_val \in Addrs : uretprobe_realloc(cur, ret_val)
    \/ \E cur \in Threads : \E len \in Sizes : tracepoint_sys_enter_mmap(cur, 0, len)
    \/ \E cur \in Threads : \E ret \in MmapRets : tracepoint_sys_exit_mmap(cur, ret)
    \/ \E cur \in Threads : \E addr \in Addrs : \E len \in {0} \cup Sizes :
           tracepoint_sys_enter_munmap(cur, addr, len)
    \/ \E cur \in Threads : \E requested_brk \in Addrs :
           tracepoint_sys_enter_brk(cur, requested_brk)
    \/ \E cur \in Threads : \E new_brk \in Addrs : tracepoint_sys_exit_brk(cur, new_brk)

NextMem ==
    /\ \/ MemHook
       \/ \E pid \in MemPids : MemArm(pid)
       \/ \E v \in EnabledVals : SetEnabled(v)
    /\ UNCHANGED exec_vars

SpecMem == InitMem /\ [][NextMem]_vars

(***************************************************************************)
(* Either program, each with its own ring buffer.  The two objects share   *)
(* no map, so a run follows one of them.                                   *)
(***************************************************************************)
InitRing == InitExec \/ InitMem

NextRing ==
    \/ workload = {} /\ NextExec
    \/ workload # {} /\ NextMem

SpecRing == InitRing /\ [][NextRing]_vars

(***************************************************************************)
(* Properties of the allocation program.                                   *)
(***************************************************************************)
Tracked(cur) == memtrack_is_tracked(Hi32(cur)) # 0
Enabled == tracking_enabled[0] # 0
MemRoom(ev) == RingUsed(ev, mem_ring_older, MEM_EVENT_SIZE)
                   + RecordBytes(MEM_EVENT_SIZE) <= RINGBUF_SIZE - 1
IsPrefix(a, b) == Len(a) <= Len(b) /\ SubSeq(b, 1, Len(a)) = a
ArgTable(name) ==
    CASE name = "malloc" -> malloc_arg
      [] name = "calloc" -> calloc_arg
      [] name = "aligned_alloc" -> aligned_alloc_arg
      [] name = "memalign" -> memalign_arg
ArgTableName(name) ==
    CASE name = "malloc" -> "malloc_arg"
      [] name = "calloc" -> "calloc_arg"
      [] name = "aligned_alloc" -> "aligned_alloc_arg"
      [] name = "memalign" -> "memalign_arg"
\* the record an allocation hook of thread cur is expected to append
AllocRecord(event_type, cur, addr, size) ==
    [header |-> [event_type |-> event_type, pid |-> cur[1], tid |-> cur[2]],
     data |-> [addr |-> addr, size |-> size]]
FreeRecord(cur, addr) ==
    [header |-> [event_type |-> 2, pid |-> cur[1], tid |-> cur[2]],
     data |-> [addr |-> addr]]
ArgEventType(name) == IF name = "malloc" THEN 1 ELSE IF name = "calloc" THEN 3 ELSE 5
\* the entry hook of primitive name run on table map by thread cur
EntryOf(name, map, cur, arg) == uprobe_arg(map, mem_other[ArgTableName(name)], cur, arg)

\* entry hook with argument A, then return hook with result R, from this state
C4_Pair(name, cur, A, R) ==
    LET m1 == EntryOf(name, ArgTable(name), cur, A)
        r == uretprobe_arg(name, m1, mem_events, cur, R)
    IN /\ m1[cur] = A
       /\ cur \notin DOMAIN r.map
       /\ r.events = IF R # 0
                     THEN Append(mem_events, AllocRecord(ArgEventType(name), cur, R, A))
                     ELSE mem_events

C4_State ==
    \A name \in {"malloc", "aligned_alloc", "memalign"} \cap workload : \A cur \in Threads :
        \A A \in Sizes : \A R \in Addrs :
            (Tracked(cur) /\ Enabled /\ MemRoom(mem_events)) => C4_Pair(name, cur, A, R)

\* the hooks as they fire in a run: the entry hook stores its argument, the
\* return hook reports the stored argument with its result
C4_Step ==
    \A cur \in Threads :
      /\ \A A \in Sizes :
           /\ (uprobe_malloc(cur, A) /\ Tracked(cur)) => malloc_arg'[cur] = A
           /\ (uprobe_aligned_alloc(cur, 8, A) /\ Tracked(cur))
                  => aligned_alloc_arg'[cur] = A
           /\ (uprobe_memalign(cur, 8, A) /\ Tracked(cur)) => memalign_arg'[cur] = A
      /\ \A R \in Addrs :
           (Tracked(cur) /\ Enabled /\ MemRoom(mem_events)) =>
             /\ (uretprobe_malloc(cur, R) /\ cur \in DOMAIN malloc_arg) =>
                  mem_events' = IF R # 0
                                THEN Append(mem_events,
                                            AllocRecord(1, cur, R, malloc_arg[cur]))
                                ELSE mem_events
             /\ (uretprobe_aligned_alloc(cur, R) /\ cur \in DOMAIN aligned_alloc_arg) =>
                  mem_events' = IF R # 0
                                THEN Append(mem_events,
                                            AllocRecord(5, cur, R, aligned_alloc_arg[cur]))
                                ELSE mem_events
             /\ (uretprobe_memalign(cur, R) /\ cur \in DOMAIN memalign_arg) =>
                  mem_events' = IF R # 0
                                THEN Append(mem_events,
                                            AllocRecord(5, cur, R, memalign_arg[cur]))
                                ELSE mem_events

\* C4: for a tracked thread, with tracking enabled and room in the channel,
\* the entry hook of malloc, aligned_alloc or memalign with argument A
\* followed by its return hook with result R appends exactly one event with
\* addr = R and size = A when R is non-null and appends nothing when R is 0.
C4_EntryReturnCorrelation == []C4_State /\ [][C4_Step]_vars

\* C4 witness: the channel holds the malloc event of a call by thread 3 of
\* process 1 that asked for 2 bytes and got address 1.
C4_Witness ==
    \E i \in 1..Len(mem_events) :
        mem_events[i] = AllocRecord(1, PidTgid(1, 3), 1, 2)

\* two entry hooks (A1, then A2) and then two return hooks (R1, then R2) of
\* the same primitive on the same thread, from this state
C5_Chain(name, cur, A1, A2, R1, R2) ==
    LET m1 == EntryOf(name, ArgTable(name), cur, A1)
        m2 == EntryOf(name, m1, cur, A2)
        r1 == uretprobe_arg(name, m2, mem_events, cur, R1)
        r2 == uretprobe_arg(name, r1.map, r1.events, cur, R2)
    IN [m1 |-> m1, m2 |-> m2, r1 |-> r1, r2 |-> r2]

ExecRoom(ev) == RingUsed(ev, ring_older, EXEC_EVENT_SIZE)
                    + RecordBytes(EXEC_EVENT_SIZE) <= RINGBUF_SIZE - 1

\* neither ring buffer holds more than its capacity, and a hook that finds
\* its ring buffer full leaves the records alone and still does its own work
C6_State ==
    /\ RingUsed(events, ring_older, EXEC_EVENT_SIZE) <= 262144
    /\ RingUsed(mem_events, mem_ring_older, MEM_EVENT_SIZE) <= 262144
    /\ ~ExecRoom(events) =>
         \A event_type \in {EVENT_TYPE_FORK, EVENT_TYPE_EXEC, EVENT_TYPE_EXIT} :
           \A pid \in Pids : \A ppid \in Pids :
             submit_event(events, ring_older, tracked_pids, pids_ppid,
                          event_type, pid, ppid, PidTgid(pid, pid)) = events
    /\ (workload # {} /\ ~MemRoom(mem_events)) =>
         \A cur \in Threads : \A A \in Sizes : \A R \in Addrs :
           /\ uprobe_ret(mem_events, cur, R) = mem_events
           /\ \A name \in {"malloc", "calloc", "aligned_alloc", "memalign"} \cap workload :
                LET r == uretprobe_arg(name, EntryOf(name, ArgTable(name), cur, A),
                                       mem_events, cur, R)
                IN r.events = mem_events /\ cur \notin DOMAIN r.map

\* no step removes or rewrites a record, and no step appends to a full ring
C6_Step ==
    /\ IsPrefix(events, events')
    /\ IsPrefix(mem_events, mem_events')
    /\ ~ExecRoom(events) => events' = events
    /\ ~MemRoom(mem_events) => mem_events' = mem_events

\* C6: the event channel never holds more than its 262,144 bytes; a hook
\* that emits while the channel is full has its reservation fail, drops the
\* new event without retrying, completes without waiting, and leaves every
\* record already in the channel intact.
C6_FullChannelDropsNewest == []C6_State /\ [][C6_Step]_vars

\* C6 witness: the channel of the lifecycle program is full and a child has
\* been recorded by the fork hook although the channel holds no fork event
\* for it: that event was dropped and the older records are still there.
C6_Witness ==
    /\ ~ExecRoom(events)
    /\ Len(events) = MaxEvents
    /\ \E c \in DOMAIN pids_ppid :
         \A i \in 1..Len(events) :
            ~(events[i].event_type = EVENT_TYPE_FORK /\ events[i].pid = c)

\* what the fork hook of the allocation program does for parent p, child c
C7_ForkPropagates(p, c) ==
    IF memtrack_is_tracked(p) # 0
    THEN /\ c \in DOMAIN mem_tracked_pids'
         /\ c \in DOMAIN mem_pids_ppid' /\ mem_pids_ppid'[c] = p
         /\ \A q \in DOMAIN mem_tracked_pids : q \in DOMAIN mem_tracked_pids'
    ELSE UNCHANGED mem_tracking

\* C7: while the tracking_enabled flag is 0 no hook appends an event, and
\* the fork hook propagates tracking to the children of tracked parents
\* whatever the value of the flag.
C7_DisabledEmitsNothing ==
    /\ [][tracking_enabled[0] = 0 => mem_events' = mem_events]_vars
    /\ [][\A p \in MemPids : \A c \in MemPids \ {p} :
            mem_tracepoint_sched_fork(p, c) => C7_ForkPropagates(p, c)]_vars

\* C7 witness: tracking was enabled (the channel holds a record and has
\* room for more) and is now disabled; a child tracked through the fork hook
\* is inside a malloc call.
C7_Witness ==
    /\ tracking_enabled[0] = 0
    /\ Len(mem_events) = 1 /\ MemRoom(mem_events)
    /\ 2 \in DOMAIN mem_pids_ppid /\ 2 \in DOMAIN mem_tracked_pids
    /\ PidTgid(2, 2) \in DOMAIN malloc_arg

\* a malloc (entry then return) and a free by thread cur, from channel ev
MallocThenEvents(ev, cur, A, R) ==
    uretprobe_arg("malloc", EntryOf("malloc", malloc_arg, cur, A), ev, cur, R).events

\* the calls of thread cur leave the channel as it is
Quiet(cur) ==
    \A A \in Sizes : \A R \in Addrs :
        /\ MallocThenEvents(mem_events, cur, A, R) = mem_events
        /\ uprobe_ret(mem_events, cur, R) = mem_events

\* the calls of a child tracked through the fork hook are reported
C8_Reported ==
    \A cur \in Threads :
      (Hi32(cur) \in DOMAIN mem_pids_ppid /\ Hi32(cur) \in DOMAIN mem_tracked_pids
         /\ Enabled /\ MemRoom(mem_events)) =>
        \A A \in Sizes : \A R \in Addrs \ {0} :
          LET one == Append(mem_events, AllocRecord(1, cur, R, A)) IN
          /\ MallocThenEvents(mem_events, cur, A, R) = one
          /\ uprobe_ret(mem_events, cur, R) = Append(mem_events, FreeRecord(cur, R))
          /\ MemRoom(one) =>
               uprobe_ret(one, cur, R) = Append(one, FreeRecord(cur, R))

C11_DefaultEnabled ==
    tracking_enabled = ArrayCreated =>
        /\ is_enabled # 0
        /\ \A cur \in Threads :
             (Tracked(cur) /\ MemRoom(mem_events)) =>
                 MallocThenEvents(mem_events, cur, 1, 1) # mem_events

\* the record a hook of thread cur is expected to append
MemRecord(event_type, cur, data) ==
    [header |-> [event_type |-> event_type, pid |-> cur[1], tid |-> cur[2]],
     data |-> data]

\* map has value under key cur
Holds(map, cur, value) == cur \in DOMAIN map /\ map[cur] = value

\* an entry hook run by a tracked thread while tracking is disabled stores
\* its argument
C12_EntryStores ==
    \A cur \in Threads : (Tracked(cur) /\ ~Enabled) =>
       /\ \A A \in Sizes :
            /\ uprobe_malloc(cur, A) => Holds(malloc_arg', cur, A)
            /\ \A n \in Sizes :
                  (mem_events' = mem_events /\ malloc_arg' = malloc_arg
                      /\ uprobe_calloc(cur, U64(n), U64(A))) =>
                     Holds(calloc_arg', cur, U64(n * A))
            /\ uprobe_aligned_alloc(cur, 8, A) => Holds(aligned_alloc_arg', cur, A)
            /\ uprobe_memalign(cur, 8, A) => Holds(memalign_arg', cur, A)
            /\ tracepoint_sys_enter_mmap(cur, 0, A) =>
                   Holds(mmap_temp', cur, [addr |-> 0, len |-> A])
       /\ \A a \in Addrs :
            /\ uprobe_realloc(cur, a, 2) => Holds(realloc_args', cur, [arg0 |-> 2, arg1 |-> a])
            /\ tracepoint_sys_enter_brk(cur, a) => Holds(brk_temp', cur, a)

\* the same from every state, for the hooks of the UPROBE_ARG_RET family:
\* while tracking is disabled the entry hook stores and the return hook
\* consumes without appending
C12_State ==
    \A cur \in Threads : \A name \in {"malloc", "calloc", "aligned_alloc", "memalign"} :
      \A A \in Sizes : \A R \in Addrs :
        (Tracked(cur) /\ ~Enabled) =>
           LET m1 == EntryOf(name, ArgTable(name), cur, A)
               r == uretprobe_arg(name, m1, mem_events, cur, R)
           IN /\ Holds(m1, cur, A)
              /\ cur \notin DOMAIN r.map
              /\ r.events = mem_events

\* a write of the flag leaves every pending entry where it is
C12_ToggleKeeps == tracking_enabled' # tracking_enabled => UNCHANGED mem_tables

\* a return hook run while tracking is enabled reports the pending entry it
\* finds, whenever that entry was stored
C12_ReturnReports ==
    \A cur \in Threads : (Tracked(cur) /\ Enabled /\ MemRoom(mem_events)) =>
       /\ \A R \in Addrs \ {0} :
            /\ (uretprobe_malloc(cur, R) /\ cur \in DOMAIN malloc_arg) =>
                 mem_events' = Append(mem_events,
                     MemRecord(1, cur, [addr |-> R, size |-> malloc_arg[cur]]))
            /\ (uretprobe_calloc(cur, R) /\ cur \in DOMAIN calloc_arg) =>
                 mem_events' = Append(mem_events,
                     MemRecord(3, cur, [addr |-> R, size |-> calloc_arg[cur]]))
            /\ (uretprobe_aligned_alloc(cur, R) /\ cur \in DOMAIN aligned_alloc_arg) =>
                 mem_events' = Append(mem_events,
                     MemRecord(5, cur, [addr |-> R, size |-> aligned_alloc_arg[cur]]))
            /\ (uretprobe_memalign(cur, R) /\ cur \in DOMAIN memalign_arg) =>
                 mem_events' = Append(mem_events,
                     MemRecord(5, cur, [addr |-> R, size |-> memalign_arg[cur]]))
            /\ (uretprobe_realloc(cur, R) /\ cur \in DOMAIN realloc_args) =>
                 mem_events' = Append(mem_events,
                     MemRecord(4, cur, [old_addr |-> realloc_args[cur].arg1,
                                        new_addr |-> R,
                                        size |-> realloc_args[cur].arg0]))
            /\ (tracepoint_sys_exit_mmap(cur, R) /\ cur \in DOMAIN mmap_temp) =>
                 mem_events' = Append(mem_events,
                     MemRecord(6, cur, [addr |-> R, size |-> mmap_temp[cur].len]))
            /\ (tracepoint_sys_exit_brk(cur, R) /\ cur \in DOMAIN brk_temp
                    /\ brk_temp[cur] # 0) =>
                 mem_events' = Append(mem_events,
                     MemRecord(8, cur, [addr |-> R, size |-> 0]))

\* a return hook run while tracking is disabled consumes the pending entry
\* and appends nothing
C12_ReturnConsumes ==
    \A cur \in Threads : ~Enabled =>
       /\ mem_events' = mem_events
       /\ \A R \in Addrs :
            /\ uretprobe_malloc(cur, R) => cur \notin DOMAIN malloc_arg'
            /\ uretprobe_calloc(cur, R) => cur \notin DOMAIN calloc_arg'
            /\ uretprobe_aligned_alloc(cur, R) => cur \notin DOMAIN aligned_alloc_arg'
            /\ uretprobe_memalign(cur, R) => cur \notin DOMAIN memalign_arg'
            /\ uretprobe_realloc(cur, R) => cur \notin DOMAIN realloc_args'
            /\ tracepoint_sys_exit_brk(cur, R) => cur \notin DOMAIN brk_temp'
       /\ \A R \in MmapRets :
            tracepoint_sys_exit_mmap(cur, R) => cur \notin DOMAIN mmap_temp'

RECURSIVE walk_lookups(_, _, _, _, _)
walk_lookups(tp, pp, pid, i, depth) ==
    IF i >= depth THEN 0
    ELSE IF ~bpf_map_lookup_elem(pp, pid) THEN 1
    ELSE IF bpf_map_lookup_elem(tp, pp[pid]) THEN 2
    ELSE 2 + walk_lookups(tp, pp, pp[pid], i + 1, depth)

RECURSIVE walk_links(_, _, _, _, _)
walk_links(tp, pp, pid, i, depth) ==
    IF i >= depth THEN 0
    ELSE IF ~bpf_map_lookup_elem(pp, pid) THEN 0
    ELSE IF bpf_map_lookup_elem(tp, pp[pid]) THEN 1
    ELSE 1 + walk_links(tp, pp, pp[pid], i + 1, depth)

\* mutant: the loop runs once more
is_tracked_lookups_deeper(tp, pp, pid) ==
    IF bpf_map_lookup_elem(tp, pid) THEN 1
    ELSE 1 + walk_lookups(tp, pp, pid, 0, WALK_DEPTH + 1)

\* the map lookups of one call of is_tracked
is_tracked_lookups(tp, pp, pid) ==
    IF bpf_map_lookup_elem(tp, pid) THEN 1
    ELSE 1 + walk_lookups(tp, pp, pid, 0, WALK_DEPTH)

\* the pids_ppid links one call of is_tracked follows
is_tracked_links(tp, pp, pid) ==
    IF bpf_map_lookup_elem(tp, pid) THEN 0
    ELSE walk_links(tp, pp, pid, 0, WALK_DEPTH)

(***************************************************************************)
(* All hooks and the ancestor walk in one specification: a run follows the *)
(* lifecycle program, the allocation program, or calls of is_tracked on    *)
(* given maps.                                                             *)
(***************************************************************************)
InitHooks == InitExec \/ InitMem \/ InitWalk

NextHooks ==
    \/ workload = {} /\ NextExec
    \/ workload # {} /\ NextMem
    \/ workload = {} /\ alive = {} /\ NextWalk

SpecHooks == InitHooks /\ [][NextHooks]_vars

\* every hook can run in the state at hand: none has a precondition on the
\* channel, on a table or on another invocation
C13_HooksEnabled ==
    /\ \A pid \in alive :
         /\ ENABLED exec_tracepoint_sched_exec(PidTgid(pid, pid))
         /\ ENABLED exec_tracepoint_sched_exit(PidTgid(pid, pid))
         /\ \A child_pid \in Pids \ alive :
                ENABLED exec_tracepoint_sched_fork(pid, child_pid)
    /\ workload # {} =>
         /\ ENABLED mem_tracepoint_sched_fork(1, 2)
         /\ \A cur \in Threads :
              /\ "malloc" \in workload =>
                   ENABLED uprobe_malloc(cur, 1) /\ ENABLED uretprobe_malloc(cur, 1)
              /\ "free" \in workload => ENABLED uprobe_free(cur, 1)
              /\ "calloc" \in workload =>
                   ENABLED uprobe_calloc(cur, U64(1), U64(1)) /\ ENABLED uretprobe_calloc(cur, 1)
              /\ "aligned_alloc" \in workload =>
                   /\ ENABLED uprobe_aligned_alloc(cur, 8, 1)
                   /\ ENABLED uretprobe_aligned_alloc(cur, 1)
              /\ "memalign" \in workload =>
                   ENABLED uprobe_memalign(cur, 8, 1) /\ ENABLED uretprobe_memalign(cur, 1)
              /\ "realloc" \in workload =>
                   ENABLED uprobe_realloc(cur, 1, 2) /\ ENABLED uretprobe_realloc(cur, 1)
              /\ "mmap" \in workload =>
                   /\ ENABLED tracepoint_sys_enter_mmap(cur, 0, 1)
                   /\ ENABLED tracepoint_sys_exit_mmap(cur, 1)
              /\ "munmap" \in workload => ENABLED tracepoint_sys_enter_munmap(cur, 1, 1)
              /\ "brk" \in workload =>
                   /\ ENABLED tracepoint_sys_enter_brk(cur, 1)
                   /\ ENABLED tracepoint_sys_exit_brk(cur, 1)

\* C13: every hook invocation ends after a bounded number of map operations
\* and waits for nothing: each hook can run in every state, whatever the
\* channel and the tables hold, and a call of is_tracked follows at most 5
\* pids_ppid links and makes at most 11 lookups, also on a pids_ppid that
\* holds a cycle.
C13_BoundedWork ==
    /\ \A pid \in WalkPids :
         /\ is_tracked_links(tracked_pids, pids_ppid, pid) <= 5
         /\ is_tracked_lookups(tracked_pids, pids_ppid, pid) <= 11
    /\ \A pid \in MemPids :
         /\ is_tracked_links(mem_tracked_pids, mem_pids_ppid, pid) <= 5
         /\ is_tracked_lookups(mem_tracked_pids, mem_pids_ppid, pid) <= 11
    /\ C13_HooksEnabled

\* C13 witness: pids_ppid holds a cycle through pid p with no marker on it;
\* is_tracked(p) was called, followed five links, made eleven lookups and
\* returned false.
C13_Witness ==
    \E p \in DOMAIN walk_ret :
        /\ walk_ret[p] = 0
        /\ \E k \in 1..(ChainLen + 1) : Ancestor(pids_ppid, p, k) = p
        /\ is_tracked_links(tracked_pids, pids_ppid, p) = 5
        /\ is_tracked_lookups(tracked_pids, pids_ppid, p) = 11

\* from every state: an entry hook of an untracked thread stores nothing,
\* and a return hook of the UPROBE_ARG_RET family that finds no entry gives
\* back the table and the channel as they were
C14_State ==
    \A cur \in Threads : \A name \in {"malloc", "calloc", "aligned_alloc", "memalign"} :
      \A A \in Sizes : \A R \in Addrs :
        /\ ~Tracked(cur) => EntryOf(name, ArgTable(name), cur, A) = ArgTable(name)
        /\ cur \notin DOMAIN ArgTable(name) =>
             uretprobe_arg(name, ArgTable(name), mem_events, cur, R)
                 = [map |-> ArgTable(name), events |-> mem_events]

\* in a run: a return hook that finds no entry changes nothing at all
C14_Step ==
    \A cur \in Threads :
      /\ \A R \in Addrs :
           /\ (uretprobe_malloc(cur, R) /\ cur \notin DOMAIN malloc_arg)
                  => UNCHANGED vars
           /\ (uretprobe_calloc(cur, R) /\ cur \notin DOMAIN calloc_arg)
                  => UNCHANGED vars
           /\ (uretprobe_aligned_alloc(cur, R) /\ cur \notin DOMAIN aligned_alloc_arg)
                  => UNCHANGED vars
           /\ (uretprobe_memalign(cur, R) /\ cur \notin DOMAIN memalign_arg)
                  => UNCHANGED vars
           /\ (uretprobe_realloc(cur, R) /\ cur \notin DOMAIN realloc_args)
                  => UNCHANGED vars
           /\ (tracepoint_sys_exit_brk(cur, R) /\ cur \notin DOMAIN brk_temp)
                  => UNCHANGED vars
      /\ \A R \in MmapRets :
           (tracepoint_sys_exit_mmap(cur, R) /\ cur \notin DOMAIN mmap_temp)
               => UNCHANGED vars

\* C14: a return hook that fires for a thread with no pending entry for its
\* primitive (the entry hook stored nothing because the process was
\* untracked, or an earlier return consumed the entry) appends no event and
\* leaves every map unchanged.
C14_ReturnWithoutEntry == []C14_State /\ [][C14_Step]_vars

\* C14 witness: a tracked thread's malloc has been reported and its entry
\* consumed; tracking is enabled and the channel has room, so a second
\* return hook of that thread is silent only because it finds no entry.
C14_Witness ==
    \E cur \in Threads :
        /\ Tracked(cur) /\ Enabled /\ MemRoom(mem_events)
        /\ "malloc" \in workload /\ cur \notin DOMAIN malloc_arg
        /\ mem_events = << MemRecord(1, cur, [addr |-> 1, size |-> 2]) >>

(***************************************************************************)
(* Either program with its hash maps full or one entry short of full: the  *)
(* other entries belong to pids and threads outside the model.  The ring   *)
(* buffers are full from the start, so the runs differ in the maps only.   *)
(***************************************************************************)
NearFull == {MAX_ENTRIES - 1, MAX_ENTRIES}

InitCapExec ==
    /\ MemIdle
    /\ tracked_pids = EmptyMap
    /\ pids_ppid = EmptyMap
    /\ tracked_other \in NearFull
    /\ ppid_other \in NearFull
    /\ alive \in SUBSET Pids \ {{}}
    /\ walk_ret = EmptyMap
    /\ events = << >>
    /\ ring_older = RingSlots(EXEC_EVENT_SIZE) * RecordBytes(EXEC_EVENT_SIZE)

InitCapMem ==
    /\ ExecIdle
    /\ mem_tracked_pids = EmptyMap
    /\ mem_pids_ppid = EmptyMap
    /\ mem_events = << >>
    /\ mem_ring_older = RingSlots(MEM_EVENT_SIZE) * RecordBytes(MEM_EVENT_SIZE)
    /\ \E a \in NearFull : \E b \in NearFull : \E c \in NearFull :
          mem_other = [n \in MemMapNames |->
                         IF n = "tracked_pids" THEN a
                         ELSE IF n = "pids_ppid" THEN b ELSE c]
    /\ tracking_enabled = ArrayCreated
    /\ malloc_arg = EmptyMap /\ calloc_arg = EmptyMap
    /\ aligned_alloc_arg = EmptyMap /\ memalign_arg = EmptyMap
    /\ realloc_args = EmptyMap /\ mmap_temp = EmptyMap /\ brk_temp = EmptyMap
    /\ workload \in Workloads
    /\ running = EmptyMap

InitCap == InitCapExec \/ InitCapMem

SpecCap == InitCap /\ [][NextRing]_vars


\* m2 has no key that m has not
IsSubMap(m2, m) == DOMAIN m2 \subseteq DOMAIN m

\* the outside entries of a memtrack map (none while the program is not loaded)
MemOther(n) == IF n \in DOMAIN mem_other THEN mem_other[n] ELSE 0

\* every hash map of both programs with the number of its outside entries
HashMaps ==
    << <<tracked_pids, tracked_other, Pids>>, <<pids_ppid, ppid_other, Pids>>,
       <<mem_tracked_pids, MemOther("tracked_pids"), MemPids>>,
       <<mem_pids_ppid, MemOther("pids_ppid"), MemPids>>,
       <<malloc_arg, MemOther("malloc_arg"), Threads>>,
       <<calloc_arg, MemOther("calloc_arg"), Threads>>,
       <<aligned_alloc_arg, MemOther("aligned_alloc_arg"), Threads>>,
       <<memalign_arg, MemOther("memalign_arg"), Threads>>,
       <<realloc_args, MemOther("realloc_args"), Threads>>,
       <<mmap_temp, MemOther("mmap_temp"), Threads>>,
       <<brk_temp, MemOther("brk_temp"), Threads>> >>

Full(m, other) == MapLen(m, other) = MAX_ENTRIES

\* no map is over capacity; an insert of a new key into a full map returns
\* the map as it was; a fork of a tracked parent into full maps returns 1
C15_State ==
    /\ \A i \in DOMAIN HashMaps :
          MapLen(HashMaps[i][1], HashMaps[i][2]) <= MAX_ENTRIES
    /\ \A i \in DOMAIN HashMaps : \A k \in HashMaps[i][3] : \A v \in {0, 1, 2} :
          LET h == HashMaps[i]
          IN  (Full(h[1], h[2]) /\ k \notin DOMAIN h[1])
                 => bpf_map_update_elem(h[1], h[2], k, v) = h[1]
    /\ \A p \in Pids : \A c \in Pids \ DOMAIN tracked_pids :
          (Full(tracked_pids, tracked_other) /\ c \notin DOMAIN pids_ppid
             /\ is_tracked(tracked_pids, pids_ppid, p) = 1)
             => LET r == handle_fork(tracked_pids, tracked_other, pids_ppid, ppid_other, p, c)
                IN  /\ r.ret = 1
                    /\ r.tracked_pids = tracked_pids
                    /\ (Full(pids_ppid, ppid_other) => r.pids_ppid = pids_ppid)

\* a step leaves a full map with the keys it had or fewer
C15_Step ==
    /\ Full(tracked_pids, tracked_other) => IsSubMap(tracked_pids', tracked_pids)
    /\ Full(pids_ppid, ppid_other) => IsSubMap(pids_ppid', pids_ppid)
    /\ Full(mem_tracked_pids, MemOther("tracked_pids"))
          => IsSubMap(mem_tracked_pids', mem_tracked_pids)
    /\ Full(mem_pids_ppid, MemOther("pids_ppid"))
          => IsSubMap(mem_pids_ppid', mem_pids_ppid)
    /\ Full(malloc_arg, MemOther("malloc_arg")) => IsSubMap(malloc_arg', malloc_arg)
    /\ Full(calloc_arg, MemOther("calloc_arg")) => IsSubMap(calloc_arg', calloc_arg)
    /\ Full(aligned_alloc_arg, MemOther("aligned_alloc_arg"))
          => IsSubMap(aligned_alloc_arg', aligned_alloc_arg)
    /\ Full(memalign_arg, MemOther("memalign_arg"))
          => IsSubMap(memalign_arg', memalign_arg)
    /\ Full(realloc_args, MemOther("realloc_args"))
          => IsSubMap(realloc_args', realloc_args)
    /\ Full(mmap_temp, MemOther("mmap_temp")) => IsSubMap(mmap_temp', mmap_temp)
    /\ Full(brk_temp, MemOther("brk_temp")) => IsSubMap(brk_temp', brk_temp)

\* C15: no map ever holds more than 10,000 entries; an insert of a new key
\* into a full map fails silently, evicting and altering nothing, and the
\* hook completes normally.
C15_FullMapRejectsNewKey == []C15_State /\ [][C15_Step]_vars

\* the marker of child 2 was refused by the full tracked_pids while its
\* parent link went into pids_ppid, which had room
C15_Witness ==
    /\ Full(tracked_pids, tracked_other)
    /\ 1 \in DOMAIN tracked_pids
    /\ 2 \notin DOMAIN tracked_pids
    /\ 2 \in DOMAIN pids_ppid /\ pids_ppid[2] = 1


(***************************************************************************)
(* The lifecycle program helper call by helper call.  Each map helper is   *)
(* atomic, a hook is not: hooks run at the same time on different CPUs and *)
(* see the maps between two helper calls of one another.  `running` holds  *)
(* the invocation in flight on each CPU: the hook, the pid its is_tracked  *)
(* call started from, the child (fork hook), the position pc in the hook   *)
(* and, inside is_tracked, the pid `cur` the walk has reached and the      *)
(* iteration i of its loop.  The exit hook fires for every exiting thread  *)
(* of a process with the process id (tgid), so the exit hook of a process  *)
(* can run beside a fork or exec hook of another of its threads.           *)
(* submit_event is taken as one step: it writes no map.                    *)
(***************************************************************************)
Cpus == {0, 1}
StepPids == {1, 2}

Invocation(hook, pid, child, pc, cur, i) ==
    [hook |-> hook, pid |-> pid, child |-> child, pc |-> pc, cur |-> cur, i |-> i]

Put(cpu, inv) == [c \in DOMAIN running \cup {cpu} |-> IF c = cpu THEN inv ELSE running[c]]
Retire(cpu) == [c \in DOMAIN running \ {cpu} |-> running[c]]
At(cpu, pc) == cpu \in DOMAIN running /\ running[cpu].pc = pc

\* pids that a new child cannot take: living processes, children of forks in
\* flight and processes whose exit hook has not returned
InUse == alive \cup {running[c].child : c \in DOMAIN running}
               \cup {running[c].pid : c \in DOMAIN running}

\* where the hook goes when its is_tracked call returns ret
Returned(cpu, ret) ==
    LET inv == running[cpu]
    IN  IF ret = 0 THEN Retire(cpu)
        ELSE IF inv.hook = "fork" THEN Put(cpu, [inv EXCEPT !.pc = "ins_marker"])
        ELSE Put(cpu, [inv EXCEPT !.pc = "submit"])

\* a process forks, execs, or one of its threads exits: the tracepoint fires
StartFork(cpu, parent_pid, child_pid) ==
    /\ cpu \notin DOMAIN running
    /\ parent_pid \in alive
    /\ child_pid \notin InUse
    /\ running' = Put(cpu, Invocation("fork", parent_pid, child_pid, "direct", parent_pid, 0))
    /\ UNCHANGED <<exec_maps, alive>>

StartExec(cpu, pid) ==
    /\ cpu \notin DOMAIN running
    /\ pid \in alive
    /\ running' = Put(cpu, Invocation("exec", pid, 0, "direct", pid, 0))
    /\ UNCHANGED <<exec_maps, alive>>

\* last: the exiting thread is the last one of the process
StartExit(cpu, pid, last) ==
    /\ cpu \notin DOMAIN running
    /\ pid \in alive
    /\ last => \A c \in DOMAIN running : running[c].pid # pid
    /\ running' = Put(cpu, Invocation("exit", pid, 0, "direct", pid, 0))
    /\ alive' = IF last THEN alive \ {pid} ELSE alive
    /\ UNCHANGED exec_maps

\* is_tracked: the direct lookup
StepDirect(cpu) ==
    /\ At(cpu, "direct")
    /\ running' = IF bpf_map_lookup_elem(tracked_pids, running[cpu].pid)
                  THEN Returned(cpu, 1)
                  ELSE Put(cpu, [running[cpu] EXCEPT !.pc = "link"])
    /\ UNCHANGED <<exec_maps, alive>>

\* is_tracked: the lookup of the parent link in iteration i
StepLink(cpu) ==
    /\ At(cpu, "link")
    /\ running' = LET inv == running[cpu]
                  IN  IF bpf_map_lookup_elem(pids_ppid, inv.cur)
                      THEN Put(cpu, [inv EXCEPT !.pc = "marker", !.cur = pids_ppid[inv.cur]])
                      ELSE Returned(cpu, 0)
    /\ UNCHANGED <<exec_maps, alive>>

\* is_tracked: the lookup of the ancestor's marker in iteration i
StepMarker(cpu) ==
    /\ At(cpu, "marker")
    /\ running' = LET inv == running[cpu]
                  IN  IF bpf_map_lookup_elem(tracked_pids, inv.cur) THEN Returned(cpu, 1)
                      ELSE IF inv.i + 1 < WALK_DEPTH
                           THEN Put(cpu, [inv EXCEPT !.pc = "link", !.i = inv.i + 1])
                           ELSE Returned(cpu, 0)
    /\ UNCHANGED <<exec_maps, alive>>

\* handle_fork: the first update
StepInsertMarker(cpu) ==
    /\ At(cpu, "ins_marker")
    /\ tracked_pids' = bpf_map_update_elem(tracked_pids, tracked_other, running[cpu].child, 1)
    /\ running' = Put(cpu, [running[cpu] EXCEPT !.pc = "ins_link"])
    /\ UNCHANGED <<pids_ppid, tracked_other, ppid_other, events, ring_older, alive>>

\* handle_fork: the second update; handle_fork returns 1
StepInsertLink(cpu) ==
    /\ At(cpu, "ins_link")
    /\ pids_ppid' = bpf_map_update_elem(pids_ppid, ppid_other, running[cpu].child,
                                        running[cpu].pid)
    /\ running' = Put(cpu, [running[cpu] EXCEPT !.pc = "submit"])
    /\ UNCHANGED <<tracked_pids, tracked_other, ppid_other, events, ring_older, alive>>

\* submit_event; the fork hook returns after it and the child may run, the
\* exec hook returns, the exit hook goes on to handle_exit
StepSubmit(cpu) ==
    /\ At(cpu, "submit")
    /\ LET inv == running[cpu]
           cur == PidTgid(inv.pid, inv.pid)
       IN  /\ events' =
                 IF inv.hook = "fork"
                 THEN submit_event(events, ring_older, tracked_pids, pids_ppid,
                                   EVENT_TYPE_FORK, inv.child, inv.pid, cur)
                 ELSE submit_event(events, ring_older, tracked_pids, pids_ppid,
                                   IF inv.hook = "exec" THEN EVENT_TYPE_EXEC
                                   ELSE EVENT_TYPE_EXIT, inv.pid, 0, cur)
           /\ running' = IF inv.hook = "exit"
                         THEN Put(cpu, [inv EXCEPT !.pc = "del_marker"])
                         ELSE Retire(cpu)
           /\ alive' = IF inv.hook = "fork" THEN alive \cup {inv.child} ELSE alive
    /\ UNCHANGED <<tracked_pids, pids_ppid, tracked_other, ppid_other, ring_older>>

\* mutant: handle_exit leaves the marker in place
StepDeleteMarker_skip(cpu) ==
    /\ At(cpu, "del_marker")
    /\ running' = Put(cpu, [running[cpu] EXCEPT !.pc = "del_link"])
    /\ UNCHANGED <<exec_maps, alive>>

\* handle_exit: the first delete
StepDeleteMarker(cpu) ==
    /\ At(cpu, "del_marker")
    /\ tracked_pids' = bpf_map_delete_elem(tracked_pids, running[cpu].pid)
    /\ running' = Put(cpu, [running[cpu] EXCEPT !.pc = "del_link"])
    /\ UNCHANGED <<pids_ppid, tracked_other, ppid_other, events, ring_older, alive>>

\* handle_exit: the second delete; the hook returns
StepDeleteLink(cpu) ==
    /\ At(cpu, "del_link")
    /\ pids_ppid' = bpf_map_delete_elem(pids_ppid, running[cpu].pid)
    /\ running' = Retire(cpu)
    /\ UNCHANGED <<tracked_pids, tracked_other, ppid_other, events, ring_older, alive>>

\* the control plane arms a pid while hooks are in flight
StepArm(pid) ==
    /\ pid \in alive
    /\ Arm(pid)
    /\ UNCHANGED running

InitSteps ==
    /\ MemIdle
    /\ tracked_pids = EmptyMap
    /\ pids_ppid = EmptyMap
    /\ tracked_other = 0
    /\ ppid_other = 0
    /\ alive \in SUBSET StepPids \ {{}}
    /\ walk_ret = EmptyMap
    /\ events = << >>
    /\ ring_older = (RingSlots(EXEC_EVENT_SIZE) - MaxEvents) * RecordBytes(EXEC_EVENT_SIZE)

NextSteps ==
    /\ \/ \E pid \in StepPids : StepArm(pid)
       \/ \E cpu \in Cpus : \E parent_pid \in StepPids : \E child_pid \in StepPids :
              StartFork(cpu, parent_pid, child_pid)
       \/ \E cpu \in Cpus : \E pid \in StepPids : StartExec(cpu, pid)
       \/ \E cpu \in Cpus : \E pid \in StepPids : \E last \in BOOLEAN :
              StartExit(cpu, pid, last)
       \/ \E cpu \in Cpus :
              \/ StepDirect(cpu) \/ StepLink(cpu) \/ StepMarker(cpu)
              \/ StepInsertMarker(cpu) \/ StepInsertLink(cpu) \/ StepSubmit(cpu)
              \/ StepDeleteMarker(cpu) \/ StepDeleteLink(cpu)
    /\ UNCHANGED <<walk_ret, mem_tracking, mem_events, tracking_enabled, mem_tables,
                   mem_ring_older, mem_other, workload>>

SpecSteps == InitSteps /\ [][NextSteps]_vars


\* C16: in every state, the states between two helper calls of a hook
\* included, a pid that handle_fork has put into tracked_pids has a pids_ppid
\* entry naming the parent it was forked from.
C16_MarkedImpliesLinked ==
    \A cpu \in DOMAIN running :
       LET inv == running[cpu]
       IN  (inv.hook = "fork" /\ inv.pc \in {"ins_link", "submit"}
              /\ inv.child \in DOMAIN tracked_pids)
             => /\ inv.child \in DOMAIN pids_ppid
                /\ pids_ppid[inv.child] = inv.pid


\* the invocation on cpu takes a step
Moves(cpu) == cpu \notin DOMAIN running' \/ running'[cpu] # running[cpu]

\* only the exit hook of c takes c out of tracked_pids, and an exit hook of c
\* that finds the marker of c deletes the marker and the link and returns
C17_Step ==
    \A c \in StepPids :
       /\ (c \in DOMAIN tracked_pids /\ c \notin DOMAIN tracked_pids')
             => \E cpu \in DOMAIN running :
                   /\ running[cpu].hook = "exit" /\ running[cpu].pid = c
                   /\ running[cpu].pc = "del_marker" /\ Moves(cpu)
       /\ \A cpu \in DOMAIN running :
             (running[cpu].hook = "exit" /\ running[cpu].pid = c /\ Moves(cpu))
                => /\ (running[cpu].pc = "direct" /\ c \in DOMAIN tracked_pids)
                         => cpu \in DOMAIN running' /\ running'[cpu].pc = "submit"
                   /\ running[cpu].pc = "submit"
                         => cpu \in DOMAIN running' /\ running'[cpu].pc = "del_marker"
                   /\ running[cpu].pc = "del_marker"
                         => /\ c \notin DOMAIN tracked_pids'
                            /\ cpu \in DOMAIN running' /\ running'[cpu].pc = "del_link"
                   /\ running[cpu].pc = "del_link"
                         => c \notin DOMAIN pids_ppid' /\ cpu \notin DOMAIN running'

\* C17: a fork hook for (P, C) interleaved with an exit hook for P can leave
\* C in tracked_pids after P has been removed from both maps; the entry
\* stays until the exit hook of C runs, and that hook removes it.
C17_OrphanHealsOnExit == [][C17_Step]_vars

\* the fork hook of parent 1 passed its is_tracked check, the exit hook of 1
\* then removed 1 from both maps and returned, and the fork hook has now
\* inserted the marker of child 2
C17_Witness ==
    /\ \E cpu \in DOMAIN running :
          /\ running[cpu].hook = "fork" /\ running[cpu].pid = 1
          /\ running[cpu].child = 2 /\ running[cpu].pc = "ins_link"
    /\ \A cpu \in DOMAIN running : running[cpu].hook # "exit"
    /\ 2 \in DOMAIN tracked_pids
    /\ 1 \notin DOMAIN tracked_pids /\ 1 \notin DOMAIN pids_ppid
    /\ \E k \in DOMAIN events :
          events[k].event_type = EVENT_TYPE_EXIT /\ events[k].pid = 1


(***************************************************************************)
(* A process tree grown by the fork hook from one armed root.  The root is *)
(* pid 0, the only pid the control plane has armed; the kernel hands out   *)
(* the pids 1, 2, ... in turn, and any living process may fork.            *)
(***************************************************************************)
TreePids == 0..ChainLen

InitTree ==
    /\ MemIdle
    /\ tracked_pids = [p \in {0} |-> 1]
    /\ pids_ppid = EmptyMap
    /\ tracked_other = 0
    /\ ppid_other = 0
    /\ alive = {0}
    /\ walk_ret = EmptyMap
    /\ events = << >>
    /\ ring_older = (RingSlots(EXEC_EVENT_SIZE) - MaxEvents) * RecordBytes(EXEC_EVENT_SIZE)

NextTree ==
    /\ \E parent_pid \in alive :
          /\ Cardinality(alive) \in TreePids
          /\ exec_tracepoint_sched_fork(parent_pid, Cardinality(alive))
    /\ UNCHANGED <<walk_ret, mem_vars>>

SpecTree == InitTree /\ [][NextTree]_vars

\* the number of forks between the root and pid
RECURSIVE Generation(_)
Generation(pid) ==
    IF pid \notin DOMAIN pids_ppid THEN 0 ELSE 1 + Generation(pids_ppid[pid])

\* C18 as stated: is_tracked returns true for descendants up to 5
\* generations below the armed root and false for deeper ones.
C18_DeepDescendantsUntracked ==
    \A pid \in alive :
       is_tracked(tracked_pids, pids_ppid, pid) = 1 <=> Generation(pid) <= WALK_DEPTH

\* C18: in a tree grown only by fork hooks from one armed root, while the
\* maps have room, is_tracked returns true for every descendant at any
\* depth: each fork hook marks the child itself, so the direct lookup
\* answers and the 5-link walk is not needed.
C18_EveryDescendantTracked ==
    \A pid \in alive :
       /\ pid \in DOMAIN tracked_pids
       /\ is_tracked(tracked_pids, pids_ppid, pid) = 1
       /\ pid # 0 => pid \in DOMAIN pids_ppid /\ pids_ppid[pid] \in alive

\* a descendant six generations below the root is tracked
C18_Witness ==
    \E pid \in alive :
       /\ Generation(pid) = WALK_DEPTH + 1
       /\ is_tracked(tracked_pids, pids_ppid, pid) = 1
       /\ DOMAIN tracked_pids = alive


(***************************************************************************)
(* uretprobe_malloc helper call by helper call.  take_param returns the    *)
(* pointer that bpf_map_lookup_elem gave it after bpf_map_delete_elem has  *)
(* released the element; the hook reads *arg_ptr later.  The elements of   *)
(* the map are preallocated and a released element is handed to the next   *)
(* insert that asks for one, so the read yields the value the thread       *)
(* stored or the value of any insert made into the map since the delete:   *)
(* `seen` collects them.  `running` maps a thread to its return hook in    *)
(* flight; the entry hook is one step (it holds no pointer into the map).  *)
(***************************************************************************)
Taking(pc, ret_val, own, seen, arg0) ==
    [pc |-> pc, ret_val |-> ret_val, own |-> own, seen |-> seen, arg0 |-> arg0]

\* the elements released by a delete and not read yet may take the new value
Reused(value) ==
    [t \in DOMAIN running |->
        IF running[t].pc = "read"
        THEN [running[t] EXCEPT !.seen = running[t].seen \cup {value}]
        ELSE running[t]]

uprobe_malloc_concurrent(cur, size) ==
    /\ cur \notin DOMAIN running
    /\ malloc_arg' = uprobe_arg(malloc_arg, mem_other["malloc_arg"], cur, size)
    /\ running' = IF memtrack_is_tracked(Hi32(cur)) # 0 THEN Reused(size) ELSE running
    /\ UNCHANGED <<mem_tracking, mem_events, tracking_enabled, mem_ring_older,
                   mem_other, workload, calloc_arg, aligned_alloc_arg, memalign_arg,
                   realloc_args, mmap_temp, brk_temp>>

\* take_param: bpf_map_lookup_elem finds the entry (the hook returns at once
\* when it does not)
uretprobe_malloc_lookup(cur, ret_val) ==
    /\ cur \notin DOMAIN running
    /\ bpf_map_lookup_elem(malloc_arg, cur)
    /\ running' = Put(cur, Taking("delete", ret_val, malloc_arg[cur], {malloc_arg[cur]}, 0))
    /\ UNCHANGED <<mem_tracking, mem_events, tracking_enabled, mem_tables,
                   mem_ring_older, mem_other, workload>>

\* take_param: bpf_map_delete_elem; the hook returns for a null result
uretprobe_malloc_delete(cur) ==
    /\ At(cur, "delete")
    /\ malloc_arg' = bpf_map_delete_elem(malloc_arg, cur)
    /\ running' = IF running[cur].ret_val = 0 THEN Retire(cur)
                  ELSE Put(cur, [running[cur] EXCEPT !.pc = "read"])
    /\ UNCHANGED <<mem_tracking, mem_events, tracking_enabled, mem_ring_older,
                   mem_other, workload, calloc_arg, aligned_alloc_arg, memalign_arg,
                   realloc_args, mmap_temp, brk_temp>>

\* arg0 = *arg_ptr
uretprobe_malloc_read(cur) ==
    /\ At(cur, "read")
    /\ \E value \in running[cur].seen :
          running' = Put(cur, [running[cur] EXCEPT !.pc = "submit", !.arg0 = value])
    /\ UNCHANGED <<mem_tracking, mem_events, tracking_enabled, mem_tables,
                   mem_ring_older, mem_other, workload>>

\* submit_block
uretprobe_malloc_submit(cur) ==
    /\ At(cur, "submit")
    /\ mem_events' = submit_block("malloc", mem_events, cur, running[cur].arg0,
                                  running[cur].ret_val)
    /\ running' = Retire(cur)
    /\ UNCHANGED <<mem_tracking, tracking_enabled, mem_tables,
                   mem_ring_older, mem_other, workload>>

InitTake == InitMem /\ "malloc" \in workload

NextTake ==
    /\ \/ \E cur \in Threads : \E size \in Sizes : uprobe_malloc_concurrent(cur, size)
       \/ \E cur \in Threads : \E ret_val \in Addrs : uretprobe_malloc_lookup(cur, ret_val)
       \/ \E cur \in Threads :
              \/ uretprobe_malloc_delete(cur)
              \/ uretprobe_malloc_read(cur)
              \/ uretprobe_malloc_submit(cur)
       \/ \E pid \in MemPids : MemArm(pid)
       \/ \E v \in EnabledVals : SetEnabled(v)
    /\ UNCHANGED exec_vars

SpecTake == InitTake /\ [][NextTake]_vars

\* C19: whatever the interleaving of the hooks of different threads, the
\* argument a return hook reports is the one its own thread stored, also
\* when another thread's entry hook runs between the delete and the read.
C19_OwnArgument ==
    \A cur \in DOMAIN running :
       running[cur].pc = "submit" => running[cur].arg0 = running[cur].own


\* from every state: the return hook of a primitive of the UPROBE_ARG_RET
\* family gives back a table without the thread's key
C20_State ==
    \A cur \in Threads : \A name \in {"malloc", "calloc", "aligned_alloc", "memalign"} :
      \A R \in Addrs :
        cur \notin DOMAIN uretprobe_arg(name, ArgTable(name), mem_events, cur, R).map

\* in a run: after the step of a return hook of thread cur the table of its
\* primitive has no entry for cur
C20_Step ==
    \A cur \in Threads :
      /\ \A R \in Addrs :
           /\ uretprobe_malloc(cur, R) => cur \notin DOMAIN malloc_arg'
           /\ uretprobe_calloc(cur, R) => cur \notin DOMAIN calloc_arg'
           /\ uretprobe_aligned_alloc(cur, R) => cur \notin DOMAIN aligned_alloc_arg'
           /\ uretprobe_memalign(cur, R) => cur \notin DOMAIN memalign_arg'
           /\ uretprobe_realloc(cur, R) => cur \notin DOMAIN realloc_args'
           /\ tracepoint_sys_exit_brk(cur, R) => cur \notin DOMAIN brk_temp'
      /\ \A R \in MmapRets :
           tracepoint_sys_exit_mmap(cur, R) => cur \notin DOMAIN mmap_temp'

\* C20: after a return hook has run for a thread on a paired primitive, the
\* table of that primitive holds no entry for the thread, whatever the
\* result, the enable flag, the tracked status and the fullness of the
\* channel.
C20_ReturnLeavesNoEntry == []C20_State /\ [][C20_Step]_vars

\* one thread's malloc return has run and its entry is gone while the other
\* thread's entry is still pending; tracking has been switched off since
C20_Witness ==
    /\ "malloc" \in workload
    /\ ~Enabled
    /\ \E cur \in Threads : \E other \in Threads \ {cur} :
          /\ cur \notin DOMAIN malloc_arg
          /\ other \in DOMAIN malloc_arg
          /\ Len(mem_events) = 1
          /\ mem_events[1].header.event_type = EVENT_TYPE_MALLOC
          /\ mem_events[1].header.pid = Hi32(cur)
          /\ mem_events[1].header.tid = Lo32(cur)


\* C4 with the return hook followed helper call by helper call: the event a
\* malloc return hook appends carries the size its thread's entry hook
\* stored.
C4_ReportedSizeIsStoredSize ==
    [][\A cur \in DOMAIN running :
          (running[cur].pc = "submit" /\ cur \notin DOMAIN running'
             /\ Len(mem_events') = Len(mem_events) + 1)
            => mem_events'[Len(mem_events')]
                  = AllocRecord(EVENT_TYPE_MALLOC, cur, running[cur].ret_val,
                                running[cur].own)]_vars


\* realloc entry hook with (ptr, size), then its return hook with result R,
\* from this state
C21_Pair(cur, ptr, size, R) ==
    LET m1 == uprobe_args(realloc_args, mem_other["realloc_args"], cur, size, ptr)
        r == uretprobe_args(m1, mem_events, cur, R)
    IN /\ Holds(m1, cur, [arg0 |-> size, arg1 |-> ptr])
       /\ cur \notin DOMAIN r.map
       /\ r.events = IF R # 0
                     THEN Append(mem_events,
                                 MemRecord(EVENT_TYPE_REALLOC, cur,
                                           [old_addr |-> ptr, new_addr |-> R,
                                            size |-> size]))
                     ELSE mem_events

\* C21 as stated: for a tracked thread the pair emits exactly one realloc
\* event {old_addr = ptr, new_addr = R, size} when R is non-null and none
\* when R is null.
C21_TrackedReallocReported ==
    \A cur \in Threads : \A ptr \in Addrs : \A size \in Sizes : \A R \in Addrs :
        ("realloc" \in workload /\ Tracked(cur)) => C21_Pair(cur, ptr, size, R)

C21_State ==
    \A cur \in Threads : \A ptr \in Addrs : \A size \in Sizes : \A R \in Addrs :
        ("realloc" \in workload /\ Tracked(cur) /\ Enabled /\ MemRoom(mem_events))
           => C21_Pair(cur, ptr, size, R)

\* the hooks as they fire in a run
C21_Step ==
    \A cur \in Threads :
      /\ \A ptr \in Addrs : \A size \in Sizes :
           (uprobe_realloc(cur, ptr, size) /\ Tracked(cur))
              => Holds(realloc_args', cur, [arg0 |-> size, arg1 |-> ptr])
      /\ \A R \in Addrs :
           (uretprobe_realloc(cur, R) /\ cur \in DOMAIN realloc_args
              /\ Tracked(cur) /\ Enabled /\ MemRoom(mem_events))
             => mem_events' =
                  IF R # 0
                  THEN Append(mem_events,
                              MemRecord(EVENT_TYPE_REALLOC, cur,
                                        [old_addr |-> realloc_args[cur].arg1,
                                         new_addr |-> R,
                                         size |-> realloc_args[cur].arg0]))
                  ELSE mem_events

\* C21: for a tracked thread, with tracking enabled and room in the channel,
\* realloc's entry hook stores (old pointer, new size) and the matching
\* return hook with result R appends exactly one realloc event with
\* old_addr = the old pointer, new_addr = R and size = the new size when R is
\* non-null, and nothing when R is null.
C21_ReallocCorrelation == []C21_State /\ [][C21_Step]_vars

\* the channel holds the realloc event of a call that moved the block at 1
\* to 1 with new size 2
C21_Witness ==
    \E i \in 1..Len(mem_events) : \E cur \in Threads :
        mem_events[i] = MemRecord(EVENT_TYPE_REALLOC, cur,
                                  [old_addr |-> 1, new_addr |-> 1, size |-> 2])


\* the free and the munmap entry hook of thread cur from this state, given
\* whether the record fits
C22_Hooks(fits) ==
    \A cur \in Threads : \A addr \in Addrs :
      /\ uprobe_ret(mem_events, cur, addr) =
           IF Tracked(cur) /\ Enabled /\ addr # 0 /\ fits
           THEN Append(mem_events, MemRecord(EVENT_TYPE_FREE, cur, [addr |-> addr]))
           ELSE mem_events
      /\ \A len \in {0} \cup Sizes :
           sys_enter_munmap(mem_events, cur, addr, len) =
             IF Tracked(cur) /\ Enabled /\ addr # 0 /\ len # 0 /\ fits
             THEN Append(mem_events, MemRecord(EVENT_TYPE_MUNMAP, cur,
                                               [addr |-> addr, size |-> len]))
             ELSE mem_events

\* C22 as stated: the free hook emits one event iff the caller is tracked,
\* tracking is enabled and the address is non-null; the munmap hook iff in
\* addition the length is non-zero.
C22_EmitsIffTrackedEnabledNonNull == C22_Hooks(TRUE)

\* in a run the two hooks leave every pending table as it is
C22_Step ==
    \A cur \in Threads : \A addr \in Addrs :
      /\ uprobe_free(cur, addr) => UNCHANGED <<mem_tables, mem_tracking>>
      /\ \A len \in {0} \cup Sizes :
           tracepoint_sys_enter_munmap(cur, addr, len)
              => UNCHANGED <<mem_tables, mem_tracking>>

\* C22: the free entry hook appends exactly one free event {addr} iff the
\* caller is tracked, tracking is enabled, the address is non-null and the
\* channel has room; the munmap entry hook appends exactly one munmap event
\* {addr, size = length} iff the caller is tracked, tracking is enabled,
\* address and length are non-zero and the channel has room; neither hook
\* creates or consumes a pending entry.
C22_UnpairedHooks == [](C22_Hooks(MemRoom(mem_events))) /\ [][C22_Step]_vars

\* a free has been reported while a malloc entry of the same thread is
\* still pending
C22_Witness ==
    \E cur \in Threads :
        /\ cur \in DOMAIN malloc_arg
        /\ mem_events = << MemRecord(EVENT_TYPE_FREE, cur, [addr |-> 1]) >>


\* the mmap exit hook of a tracked thread from this state, and the entry
\* hook followed by the exit hook, given whether a record can go out
C23_Hooks(open) ==
    \A cur \in Threads : \A ret \in MmapRets :
      Tracked(cur) =>
        /\ sys_exit_mmap(mmap_temp, mem_events, cur, ret).events =
             IF cur \in DOMAIN mmap_temp /\ ret > 0 /\ open
             THEN Append(mem_events,
                         MemRecord(EVENT_TYPE_MMAP, cur,
                                   [addr |-> ret, size |-> mmap_temp[cur].len]))
             ELSE mem_events
        /\ \A len \in Sizes :
             LET m1 == sys_enter_mmap(mmap_temp, mem_other["mmap_temp"], cur, 0, len)
             IN  sys_exit_mmap(m1, mem_events, cur, ret).events =
                   IF ret > 0 /\ open
                   THEN Append(mem_events,
                               MemRecord(EVENT_TYPE_MMAP, cur,
                                         [addr |-> ret, size |-> len]))
                   ELSE mem_events

C23_Step ==
    \A cur \in Threads : \A ret \in MmapRets :
      (tracepoint_sys_exit_mmap(cur, ret) /\ Tracked(cur))
        => mem_events' =
             IF cur \in DOMAIN mmap_temp /\ ret > 0 /\ Enabled /\ MemRoom(mem_events)
             THEN Append(mem_events,
                         MemRecord(EVENT_TYPE_MMAP, cur,
                                   [addr |-> ret, size |-> mmap_temp[cur].len]))
             ELSE mem_events

tracepoint_sys_enter_brk_concurrent(cur, requested_brk) ==
    /\ cur \notin DOMAIN running
    /\ brk_temp' = sys_enter_brk(brk_temp, mem_other["brk_temp"], cur, requested_brk)
    /\ running' = IF memtrack_is_tracked(Hi32(cur)) # 0 THEN Reused(requested_brk)
                  ELSE running
    /\ UNCHANGED <<mem_tracking, mem_events, tracking_enabled, mem_ring_older,
                   mem_other, workload, malloc_arg, calloc_arg, aligned_alloc_arg,
                   memalign_arg, realloc_args, mmap_temp>>

\* take_param: bpf_map_lookup_elem finds the entry
tracepoint_sys_exit_brk_lookup(cur, new_brk) ==
    /\ cur \notin DOMAIN running
    /\ bpf_map_lookup_elem(brk_temp, cur)
    /\ running' = Put(cur, Taking("delete", new_brk, brk_temp[cur], {brk_temp[cur]}, 0))
    /\ UNCHANGED <<mem_tracking, mem_events, tracking_enabled, mem_tables,
                   mem_ring_older, mem_other, workload>>

\* take_param: bpf_map_delete_elem
tracepoint_sys_exit_brk_delete(cur) ==
    /\ At(cur, "delete")
    /\ brk_temp' = bpf_map_delete_elem(brk_temp, cur)
    /\ running' = Put(cur, [running[cur] EXCEPT !.pc = "read"])
    /\ UNCHANGED <<mem_tracking, mem_events, tracking_enabled, mem_ring_older,
                   mem_other, workload, malloc_arg, calloc_arg, aligned_alloc_arg,
                   memalign_arg, realloc_args, mmap_temp>>

\* req_brk = *requested_brk; the hook returns for req_brk == 0 or new_brk <= 0
tracepoint_sys_exit_brk_read(cur) ==
    /\ At(cur, "read")
    /\ \E req_brk \in running[cur].seen :
          running' = IF req_brk = 0 \/ running[cur].ret_val <= 0 THEN Retire(cur)
                     ELSE Put(cur, [running[cur] EXCEPT !.pc = "submit",
                                                        !.arg0 = req_brk])
    /\ UNCHANGED <<mem_tracking, mem_events, tracking_enabled, mem_tables,
                   mem_ring_older, mem_other, workload>>

\* submit_mmap_event(new_brk, 0, EVENT_TYPE_BRK)
tracepoint_sys_exit_brk_submit(cur) ==
    /\ At(cur, "submit")
    /\ mem_events' = submit_mmap_event(mem_events, cur, running[cur].ret_val, 0,
                                       EVENT_TYPE_BRK)
    /\ running' = Retire(cur)
    /\ UNCHANGED <<mem_tracking, tracking_enabled, mem_tables,
                   mem_ring_older, mem_other, workload>>

InitTakeBrk == InitMem /\ "brk" \in workload

NextTakeBrk ==
    /\ \/ \E cur \in Threads : \E requested_brk \in Addrs :
              tracepoint_sys_enter_brk_concurrent(cur, requested_brk)
       \/ \E cur \in Threads : \E new_brk \in Addrs :
              tracepoint_sys_exit_brk_lookup(cur, new_brk)
       \/ \E cur \in Threads :
              \/ tracepoint_sys_exit_brk_delete(cur)
              \/ tracepoint_sys_exit_brk_read(cur)
              \/ tracepoint_sys_exit_brk_submit(cur)
       \/ \E pid \in MemPids : MemArm(pid)
       \/ \E v \in EnabledVals : SetEnabled(v)
    /\ UNCHANGED exec_vars

SpecTakeBrk == InitTakeBrk /\ [][NextTakeBrk]_vars

\* C24: the brk exit hook goes on to emit only when the break requested at
\* entry by its own thread is non-zero and the resulting break is non-zero:
\* brk(0), a pure query, never produces an event.
C24_QueryNeverReported ==
    \A cur \in DOMAIN running :
       running[cur].pc = "submit" => running[cur].own # 0 /\ running[cur].ret_val # 0


\* with the exit hook run to completion: it appends at most the one record
\* {addr = new_brk, size = 0}, and only when an entry is pending, the break
\* requested at entry is non-zero and the resulting break is non-zero
C24_RunToCompletion ==
    \A cur \in Threads : \A new_brk \in Addrs :
       LET r == sys_exit_brk(brk_temp, mem_events, cur, new_brk)
       IN  \/ r.events = mem_events
           \/ /\ cur \in DOMAIN brk_temp /\ brk_temp[cur] # 0 /\ new_brk # 0
              /\ r.events = Append(mem_events,
                                   MemRecord(EVENT_TYPE_BRK, cur,
                                             [addr |-> new_brk, size |-> 0]))


(***************************************************************************)
(* calloc with operands of the whole 64-bit range: the entry hook stores   *)
(* the product, the return hook reports it.                                 *)
(***************************************************************************)
Pow2_32 == <<0, 0, 0, 0, 1, 0, 0, 0>>
Pow2_63 == <<0, 0, 0, 0, 0, 0, 0, 128>>
MaxU64 == <<255, 255, 255, 255, 255, 255, 255, 255>>

\* the values of PT_REGS_PARM1 and PT_REGS_PARM2 the calloc runs draw from
Operands == {U64(1), Pow2_32}

InitCalloc == InitMem /\ workload = {"calloc"}

NextCalloc ==
    /\ \/ \E cur \in Threads : \E nmemb \in Operands : \E size \in Operands :
              uprobe_calloc(cur, nmemb, size)
       \/ \E cur \in Threads : \E ret_val \in Addrs : uretprobe_calloc(cur, ret_val)
       \/ \E pid \in MemPids : MemArm(pid)
       \/ \E v \in EnabledVals : SetEnabled(v)
    /\ UNCHANGED exec_vars

SpecCalloc == InitCalloc /\ [][NextCalloc]_vars

\* the sum modulo 2^64, byte by byte with carry
RECURSIVE add_bytes(_, _, _, _)
add_bytes(a, b, k, carry) ==
    IF k > 8 THEN <<>>
    ELSE LET s == a[k] + b[k] + carry IN
         <<s % 256>> \o add_bytes(a, b, k + 1, s \div 256)
Sum64(a, b) == add_bytes(a, b, 1, 0)

\* a times the single byte d, modulo 2^64
RECURSIVE scale_bytes(_, _, _, _)
scale_bytes(a, d, k, carry) ==
    IF k > 8 THEN <<>>
    ELSE LET s == a[k] * d + carry IN
         <<s % 256>> \o scale_bytes(a, d, k + 1, s \div 256)

\* w moved up by n bytes, the bytes moved past the top dropped
ShiftBytes(w, n) == [k \in 1..8 |-> IF k <= n THEN 0 ELSE w[k - n]]

\* the product modulo 2^64 row by row: the sum, over the bytes b[j] of b, of
\* a * b[j] * 256^(j-1), every sum taken modulo 2^64
Row(a, b, j) == ShiftBytes(scale_bytes(a, b[j], 1, 0), j - 1)
Product64(a, b) ==
    Sum64(Sum64(Sum64(Row(a, b, 1), Row(a, b, 2)), Sum64(Row(a, b, 3), Row(a, b, 4))),
          Sum64(Sum64(Row(a, b, 5), Row(a, b, 6)), Sum64(Row(a, b, 7), Row(a, b, 8))))

\* operands of the product alone, more than the runs draw
TestOperands == Operands \cup {MaxU64, U64(0), U64(2), U64(3), U64(255), U64(256), U64(65535),
                               Pow2_63, Sum64(Pow2_63, U64(1)), Sum64(Pow2_32, MaxU64)}

\* the products of the operands the runs draw from, and the set of them
ProductOf == [n \in Operands, s \in Operands |-> Product64(n, s)]
StoredProducts == {ProductOf[n, s] : n \in Operands, s \in Operands}

\* the multiplication of the entry hook is the product modulo 2^64
C25_Wraps ==
    /\ \A n \in TestOperands : \A s \in TestOperands : mul_u64(n, s) = Product64(n, s)
    /\ mul_u64(Pow2_32, Pow2_32) = U64(0)
    /\ mul_u64(Pow2_63, U64(2)) = U64(0)
    /\ mul_u64(MaxU64, MaxU64) = U64(1)
    /\ mul_u64(MaxU64, U64(2)) = [k \in 1..8 |-> IF k = 1 THEN 254 ELSE 255]

C25_State ==
    /\ C25_Wraps
    /\ \A cur \in DOMAIN calloc_arg : calloc_arg[cur] \in StoredProducts
    /\ \A i \in 1..Len(mem_events) :
          /\ mem_events[i].header.event_type = EVENT_TYPE_CALLOC
          /\ mem_events[i].data.size \in StoredProducts
          /\ mem_events[i].data.addr # 0

C25_Step ==
    \A cur \in Threads :
       /\ \A n \in Operands : \A s \in Operands :
             (Tracked(cur) /\ mem_events' = mem_events
                           /\ tracking_enabled' = tracking_enabled
                           /\ mem_tracked_pids' = mem_tracked_pids
                           /\ uprobe_calloc(cur, n, s)) =>
                 Holds(calloc_arg', cur, ProductOf[n, s])
       /\ \A R \in Addrs :
             uretprobe_calloc(cur, R) =>
                 /\ R = 0 => mem_events' = mem_events
                 /\ mem_events' # mem_events =>
                      /\ R # 0
                      /\ cur \in DOMAIN calloc_arg
                      /\ mem_events' =
                           Append(mem_events,
                                  MemRecord(EVENT_TYPE_CALLOC, cur,
                                            [addr |-> R, size |-> calloc_arg[cur]]))

\* C25: the size of a calloc event is the product count * element_size of a
\* calloc entry, taken modulo 2^64 with no overflow check (2^32 * 2^32 is
\* stored and reported as 0), and it is reported with the returned address
\* only when that address is not null
C25_CallocSizeIsWrappedProduct == [](C25_State) /\ [][C25_Step]_vars

\* a calloc event whose size is 0: no operand is 0, so the product wrapped
C25_Witness ==
    \E i \in 1..Len(mem_events) :
       /\ mem_events[i].header.event_type = EVENT_TYPE_CALLOC
       /\ mem_events[i].data.size = U64(0)
       /\ mem_events[i].data.addr # 0


(***************************************************************************)
(* execve in a process the allocation program follows.                     *)
(***************************************************************************)
\* the discriminants event.h defines for the allocation channel
AllocEventTypes ==
    {EVENT_TYPE_MALLOC, EVENT_TYPE_FREE, EVENT_TYPE_CALLOC, EVENT_TYPE_REALLOC,
     EVENT_TYPE_ALIGNED_ALLOC, EVENT_TYPE_MMAP, EVENT_TYPE_MUNMAP, EVENT_TYPE_BRK}

\* The allocation channel after thread cur has called execve.  No program of
\* memtrack.bpf.c is attached to execve (its SEC() lines name the allocator
\* uprobes, sched_process_fork and the mmap, munmap and brk syscalls), so the
\* call runs no hook and the channel is as it was.
sys_enter_execve(ev, cur) == ev

\* C26: for a tracked thread with tracking enabled (and room in the channel),
\* an execve appends one event to the allocation channel, whose discriminant
\* is none of those of malloc, free, calloc, realloc, aligned_alloc, mmap,
\* munmap and brk
C26_ExecveReported ==
    \A cur \in Threads :
       (Tracked(cur) /\ Enabled /\ MemRoom(mem_events)) =>
          LET ev == sys_enter_execve(mem_events, cur) IN
          /\ Len(ev) = Len(mem_events) + 1
          /\ SubSeq(ev, 1, Len(mem_events)) = mem_events
          /\ ev[Len(ev)].header.pid = cur[1]
          /\ ev[Len(ev)].header.tid = cur[2]
          /\ ev[Len(ev)].header.event_type \notin AllocEventTypes

\* what the code does instead: every event of the channel carries one of the
\* eight discriminants of event.h
C26_OnlyAllocatorDiscriminants ==
    \A i \in 1..Len(mem_events) : mem_events[i].header.event_type \in AllocEventTypes


(***************************************************************************)
(* A propagated descendant and the exits of its ancestors.                 *)
(***************************************************************************)
\* whatever other pid exits now, a pid with a marker is still tracked after
\* that exit has been handled
C27_State ==
    \A c \in DOMAIN tracked_pids : \A p \in Pids \ {c} :
       LET r == handle_exit(tracked_pids, pids_ppid, p) IN
       /\ c \in DOMAIN r.tracked_pids
       /\ is_tracked(r.tracked_pids, r.pids_ppid, c) = 1

\* a step that is not the exit hook of c leaves the marker of c in place,
\* and c tracked; the exit hook of another pid in particular
C27_Step ==
    \A c \in Pids :
       /\ (c \in DOMAIN tracked_pids /\ ~exec_tracepoint_sched_exit(PidTgid(c, c)))
             => /\ c \in DOMAIN tracked_pids'
                /\ is_tracked(tracked_pids', pids_ppid', c) = 1
       /\ \A p \in alive \ {c} :
             (c \in DOMAIN tracked_pids /\ exec_tracepoint_sched_exit(PidTgid(p, p)))
                => is_tracked(tracked_pids', pids_ppid', c) = 1

\* C27: once the fork hook has inserted the marker of child C, is_tracked(C)
\* is true in every later state until the exit hook of C itself runs; the
\* exit hook of an ancestor, which deletes the ancestor's marker and link,
\* leaves C tracked
C27_DescendantOutlivesAncestors == [](C27_State) /\ [][C27_Step]_vars

\* C was inserted by the fork hook of P (its link names P, the fork event is
\* in the channel), P has exited since and has no entry left, and C, still
\* running, is tracked
C27_Witness ==
    \E c \in alive :
       /\ c \in DOMAIN tracked_pids /\ c \in DOMAIN pids_ppid
       /\ LET p == pids_ppid[c] IN
          /\ p \notin alive
          /\ p \notin DOMAIN tracked_pids /\ p \notin DOMAIN pids_ppid
          /\ \E i \in 1..Len(events) : \E j \in 1..Len(events) :
                /\ i < j
                /\ events[i].event_type = EVENT_TYPE_FORK
                /\ events[i].pid = c /\ events[i].ppid = p
                /\ events[j].event_type = EVENT_TYPE_EXIT /\ events[j].pid = p
       /\ is_tracked(tracked_pids, pids_ppid, c) = 1

====
